---------------------------- MODULE Spec2Model ----------------------------
(***************************************************************************)
(* privacy-pilot: the link scanner of public/content-script.js.            *)
(*                                                                         *)
(* Strings are sequences of one-character strings, so that lower-casing,   *)
(* splitting, substring search and concatenation are computed character by *)
(* character, as the JavaScript does.                                      *)
(***************************************************************************)
EXTENDS Integers, Sequences, FiniteSets, TLC

(***************************************************************************)
(* Bounds of the model.                                                    *)
(***************************************************************************)
\* calls of init in one behaviour of the page
MaxScans == 2
\* rejected messages in one behaviour of Spec
MaxRejects == 1
\* anchors in the document of one extraction (SpecExtract)
MaxDocLen == 2
\* queries put to one pattern matcher (SpecMatch)
MaxQueries == 3

\* the calls of cleanup that are counted
MaxStops == 2

\* the injectContentScript requests the sidebar makes
MaxInjects == 2

\* the messages the sidebar's listener receives
MaxMessages == 2

(***************************************************************************)
(* The state.                                                              *)
(*                                                                         *)
(* The page (Spec, SpecRetry): the content script running in one document. *)
(*   readyState    document.readyState, "loading" or "complete"            *)
(*   started       the script's top level has run                          *)
(*   domListener   init is registered for DOMContentLoaded (line 142)      *)
(*   document      the anchors of the document, in document order          *)
(*   observing     the MutationObserver is connected (lines 165, 172)      *)
(*   timeout       the timer handle in debounce's closure (0: undefined)   *)
(*   timers        the pending window.setTimeout timers: id, kind          *)
(*                 ("debounce" or "retry"), left (ms until due) and, for a *)
(*                 retry, the send that waits for it                       *)
(*   sends         the calls of sendLinksWithRetry that have not returned, *)
(*                 one per batch: id (the number of the scan that made the *)
(*                 batch), links, retryCount, pc ("sending": the message   *)
(*                 is awaited, "delay": the retry timer is awaited) and    *)
(*                 the attempts, failures and successes so far             *)
(* and what is recorded of the run:                                        *)
(*   settled       the send that returned last, as it was then (pc "done"  *)
(*                 or "failed")                                            *)
(*   delivered     the batches whose message the consumer answered, in the *)
(*                 order of the answers, each with the number of the       *)
(*                 attempt that was answered                               *)
(*   seenUrls      the local seenUrls of the last call of extractLinks     *)
(*   scanCount     the calls of init so far                                *)
(*   lastScan      the last call of init: what started it, the links it    *)
(*                 found, the links of the call before, whether the        *)
(*                 anchors were unchanged since that call, and quiet,      *)
(*                 notes, stopped and observing as they were               *)
(*   changed       the anchors changed since the last call of init         *)
(*   quiet         ms since the last mutation notification, up to the      *)
(*                 debounce wait                                           *)
(*   notes         the mutation notifications since the last debounced     *)
(*                 scan: "none", "one" or "many"                           *)
(*   stopped       cleanup has run                                         *)
(*   rejects       the messages rejected so far                            *)
(*   capable       the page has a MutationObserver constructor             *)
(*   stops         the calls of cleanup so far, counted up to a limit      *)
(*   reruns        the injections of the script into the document after    *)
(*                 the first: those refused, and the observers connected   *)
(*                 by those that ran                                       *)
(* One extraction (SpecExtract): ex, the reduce of extractLinks in steps.  *)
(* One normalization (SpecNorm): nz, two URLs and what cleanUrl returns.   *)
(* One pattern matcher (SpecMatch): pm, its cache and its last query.      *)
(* The extension's side (SpecPanel): the sidebar and the service worker.   *)
(*   panel         the sidebar's React state: isInjecting, error (the      *)
(*                 empty string: null), links, api and results (links and  *)
(*                 results hold the id of the message they came with; 0:   *)
(*                 the initial value)                                      *)
(*   inj           the injectContentScript request: the number made, where *)
(*                 the one in flight is (pc), how the handler's tab query  *)
(*                 and injection settled, the calls of sendResponse, the   *)
(*                 response or rejection the sidebar awaits, and how the   *)
(*                 last injectScript ended                                 *)
(*   lis           the calls of the sidebar's messageListener: the number  *)
(*                 of messages received, the calls that have not returned  *)
(*                 (id, and pc: "fetch" or "json", what is awaited), and   *)
(*                 for each message the calls of its sendResponse so far   *)
(*                 and the hrefs of the links it carried                   *)
(***************************************************************************)
VARIABLES readyState, started, domListener, document, observing, timeout,
          timers, sends, settled, delivered, seenUrls, scanCount, lastScan,
          changed, quiet, notes, stopped, rejects, capable, stops, reruns,
          ex, nz, pm, panel, inj, lis

vars == <<readyState, started, domListener, document, observing, timeout,
          timers, sends, settled, delivered, seenUrls, scanCount, lastScan,
          changed, quiet, notes, stopped, rejects, capable, stops, reruns,
          ex, nz, pm, panel, inj, lis>>

(***************************************************************************)
(* JavaScript string primitives.                                           *)
(***************************************************************************)
UpperChars ==
  <<"A","B","C","D","E","F","G","H","I","J","K","L","M",
    "N","O","P","Q","R","S","T","U","V","W","X","Y","Z">>

LowerChars ==
  <<"a","b","c","d","e","f","g","h","i","j","k","l","m",
    "n","o","p","q","r","s","t","u","v","w","x","y","z">>

DigitChars == {"0","1","2","3","4","5","6","7","8","9"}

SeqRange(s) == {s[i] : i \in 1..Len(s)}

IsUpper(c) == c \in SeqRange(UpperChars)

IsLower(c) == c \in SeqRange(LowerChars)

IndexIn(c, s) == CHOOSE i \in 1..Len(s) : s[i] = c

\* String.prototype.toLowerCase, one character
toLowerChar(c) == IF IsUpper(c) THEN LowerChars[IndexIn(c, UpperChars)] ELSE c

\* String.prototype.toUpperCase, one character (used to build inputs only)
toUpperChar(c) == IF IsLower(c) THEN UpperChars[IndexIn(c, LowerChars)] ELSE c

toLowerCase(s) == [i \in 1..Len(s) |-> toLowerChar(s[i])]

toUpperCase(s) == [i \in 1..Len(s) |-> toUpperChar(s[i])]

\* the regular expression class \w
IsWordChar(c) == IsUpper(c) \/ IsLower(c) \/ c \in DigitChars \/ c = "_"

\* the regular expression class \s
IsSpaceChar(c) == c \in {" ", "\t", "\n"}

\* the least index of a character of set cs in s, or Len(s) + 1
FirstIndexOf(s, cs) ==
  IF \E i \in 1..Len(s) : s[i] \in cs
  THEN CHOOSE i \in 1..Len(s) : s[i] \in cs /\ \A j \in 1..(i - 1) : s[j] \notin cs
  ELSE Len(s) + 1

\* the greatest index of a character of set cs in s, or 0
LastIndexOf(s, cs) ==
  IF \E i \in 1..Len(s) : s[i] \in cs
  THEN CHOOSE i \in 1..Len(s) :
         s[i] \in cs /\ \A j \in (i + 1)..Len(s) : s[j] \notin cs
  ELSE 0

\* s.split(c)[0]
SplitFirst(s, c) == SubSeq(s, 1, FirstIndexOf(s, {c}) - 1)

\* s.includes(k)
includes(s, k) ==
  \E i \in 1..(Len(s) - Len(k) + 1) : SubSeq(s, i, i + Len(k) - 1) = k

\* s.startsWith(k)
startsWith(s, k) == Len(s) >= Len(k) /\ SubSeq(s, 1, Len(k)) = k

\* s.trim()
trim(s) ==
  IF \A i \in 1..Len(s) : IsSpaceChar(s[i])
  THEN << >>
  ELSE LET a == CHOOSE i \in 1..Len(s) :
                  ~IsSpaceChar(s[i]) /\ \A j \in 1..(i - 1) : IsSpaceChar(s[j])
           b == CHOOSE i \in 1..Len(s) :
                  ~IsSpaceChar(s[i]) /\ \A j \in (i + 1)..Len(s) : IsSpaceChar(s[j])
       IN SubSeq(s, a, b)

\* s.replace(/[^\w\s]/g, ' ')
ReplaceNonWord(s) ==
  [i \in 1..Len(s) |-> IF IsWordChar(s[i]) \/ IsSpaceChar(s[i]) THEN s[i] ELSE " "]

\* the index of the first character of s that is not white space, or Len(s) + 1
FirstNonSpace(s) ==
  IF \E i \in 1..Len(s) : ~IsSpaceChar(s[i])
  THEN CHOOSE i \in 1..Len(s) :
         ~IsSpaceChar(s[i]) /\ \A j \in 1..(i - 1) : IsSpaceChar(s[j])
  ELSE Len(s) + 1

RECURSIVE CollapseSpaces(_)
\* s.replace(/\s+/g, ' ')
CollapseSpaces(s) ==
  IF s = << >> THEN << >>
  ELSE IF IsSpaceChar(Head(s))
       THEN <<" ">> \o CollapseSpaces(SubSeq(s, FirstNonSpace(s), Len(s)))
       ELSE <<Head(s)>> \o CollapseSpaces(Tail(s))

RECURSIVE Join(_, _)
\* Array.prototype.join
Join(ss, sep) ==
  IF ss = << >> THEN << >>
  ELSE IF Len(ss) = 1 THEN ss[1]
  ELSE ss[1] \o sep \o Join(Tail(ss), sep)

(***************************************************************************)
(* The pattern table, content-script.js lines 2-11.                        *)
(***************************************************************************)
LINK_PATTERNS ==
  << [keywords |-> << <<"t","e","r","m","s">> >>, type |-> "terms"],
     [keywords |-> << <<"u","s","e","r">>,
                      <<"a","g","r","e","e","m","e","n","t">> >>, type |-> "terms"],
     [keywords |-> << <<"t","o","s">> >>, type |-> "terms"],
     [keywords |-> << <<"p","r","i","v","a","c","y">> >>, type |-> "policy"],
     [keywords |-> << <<"p","r","i","v","a","c","y">>,
                      <<"p","o","l","i","c","y">> >>, type |-> "policy"],
     [keywords |-> << <<"d","a","t","a">>,
                      <<"p","r","o","t","e","c","t","i","o","n">> >>, type |-> "policy"],
     [keywords |-> << <<"l","e","g","a","l">> >>, type |-> "terms"],
     [keywords |-> << <<"c","o","n","d","i","t","i","o","n","s">> >>, type |-> "terms"] >>

(***************************************************************************)
(* new URL(url) for an absolute URL string, as far as cleanUrl reads it:   *)
(* protocol, hostname and pathname.  A scheme is letters, digits, + - .    *)
(* up to the first colon; a special scheme ignores the number of slashes   *)
(* before its authority and needs a host; the authority ends at the first  *)
(* / ? or #, its userinfo ends at the last @ and its port starts at the    *)
(* colon; the path ends at the first ? or #.  A string with no scheme, an  *)
(* empty or forbidden host or a port that is no number does not parse.     *)
(* Dot segments, percent-encoding and IPv6 hosts are not modelled; the     *)
(* inputs hold none.                                                       *)
(***************************************************************************)
SpecialSchemes ==
  { <<"h","t","t","p">>, <<"h","t","t","p","s">>, <<"f","t","p">>,
    <<"w","s">>, <<"w","s","s">> }

ForbiddenHostChars == {" ", "<", ">", "[", "]", "^", "|", "\\", "%"}

\* the number of "/" that s starts with
LeadingSlashes(s) ==
  IF \E i \in 1..Len(s) : s[i] # "/"
  THEN (CHOOSE i \in 1..Len(s) : s[i] # "/" /\ \A j \in 1..(i - 1) : s[j] = "/") - 1
  ELSE Len(s)

\* the parts of a string that parsed, and the value for one that did not
UrlOf(scheme, hostname, pathname) ==
  [ok |-> TRUE, protocol |-> scheme \o <<":">>, hostname |-> hostname, pathname |-> pathname]

UrlFailure == [ok |-> FALSE, protocol |-> << >>, hostname |-> << >>, pathname |-> << >>]

ValidScheme(scheme) ==
  /\ scheme # << >>
  /\ IsLower(scheme[1])
  /\ \A i \in 1..Len(scheme) :
       IsLower(scheme[i]) \/ scheme[i] \in DigitChars \/ scheme[i] \in {"+", "-", "."}

\* the path of what follows the authority: up to the first ? or #
PathOf(s) == SubSeq(s, 1, FirstIndexOf(s, {"?", "#"}) - 1)

\* host and port of an authority whose userinfo is dropped, then the path
ParseHostPort(scheme, special, hostport, pcolon, afterAuthority) ==
  IF /\ \A i \in 1..(pcolon - 1) : hostport[i] \notin ForbiddenHostChars
     /\ \A i \in (pcolon + 1)..Len(hostport) : hostport[i] \in DigitChars
     /\ special => pcolon > 1
  THEN UrlOf(scheme, toLowerCase(SubSeq(hostport, 1, pcolon - 1)),
             IF special /\ PathOf(afterAuthority) = << >>
             THEN <<"/">> ELSE PathOf(afterAuthority))
  ELSE UrlFailure

DropUserinfo(authority) ==
  SubSeq(authority, LastIndexOf(authority, {"@"}) + 1, Len(authority))

\* s starts with the authority, which ends at index authEnd - 1
ParseAuthority(scheme, special, s, authEnd) ==
  ParseHostPort(scheme, special,
                DropUserinfo(SubSeq(s, 1, authEnd - 1)),
                FirstIndexOf(DropUserinfo(SubSeq(s, 1, authEnd - 1)), {":"}),
                SubSeq(s, authEnd, Len(s)))

\* rest follows the colon of the scheme and starts with nslash slashes
ParseAfterScheme(scheme, special, rest, nslash) ==
  IF special
  THEN ParseAuthority(scheme, TRUE, SubSeq(rest, nslash + 1, Len(rest)),
                      FirstIndexOf(SubSeq(rest, nslash + 1, Len(rest)), {"/", "?", "#"}))
  ELSE IF nslash >= 2
  THEN ParseAuthority(scheme, FALSE, SubSeq(rest, 3, Len(rest)),
                      FirstIndexOf(SubSeq(rest, 3, Len(rest)), {"/", "?", "#"}))
  ELSE UrlOf(scheme, << >>, PathOf(rest))

ParseScheme(url, colon) ==
  IF colon <= Len(url) /\ ValidScheme(toLowerCase(SubSeq(url, 1, colon - 1)))
  THEN ParseAfterScheme(toLowerCase(SubSeq(url, 1, colon - 1)),
                        toLowerCase(SubSeq(url, 1, colon - 1)) \in SpecialSchemes,
                        SubSeq(url, colon + 1, Len(url)),
                        LeadingSlashes(SubSeq(url, colon + 1, Len(url))))
  ELSE UrlFailure

ParseURL(url) == ParseScheme(url, FirstIndexOf(url, {":"}))

(***************************************************************************)
(* cleanUrl, lines 14-22.                                                  *)
(***************************************************************************)
\* line 17 without its toLowerCase()
CleanParsedKeepCase(urlObj) ==
  urlObj.protocol \o <<"/", "/">> \o urlObj.hostname \o urlObj.pathname

\* line 17, of the parsed urlObj
CleanParsed(urlObj) ==
  toLowerCase(urlObj.protocol \o <<"/", "/">> \o urlObj.hostname \o urlObj.pathname)

\* line 20 without the two splits
CleanFallbackWhole(url) == toLowerCase(url)

\* line 20, of the string that did not parse
CleanFallback(url) == toLowerCase(SplitFirst(SplitFirst(url, "#"), "?"))

\* link.href of an SVG <a> element: an object that is no string.  new URL
\* reads it as "[object SVGAnimatedString]", which does not parse.
SVGAnimatedString == <<"[object SVGAnimatedString]">>

\* the TypeError of line 20, url.split is not a function, in place of a result
TypeError == <<"TypeError">>

IsString(url) == url # SVGAnimatedString

\* lines 15-21: the try block's result, or the catch block's, which raises
\* for a url without a split method
CleanWith(url, urlObj) ==
  IF urlObj.ok THEN CleanParsed(urlObj)
  ELSE IF IsString(url) THEN CleanFallback(url)
  ELSE TypeError

cleanUrl(url) == CleanWith(url, ParseURL(url))

(***************************************************************************)
(* normalizeText, lines 25-27.                                             *)
(***************************************************************************)
normalizeText(text) == trim(CollapseSpaces(ReplaceNonWord(toLowerCase(text))))

(***************************************************************************)
(* createPatternMatcher, lines 30-48.  The cache is a Map from key strings *)
(* to booleans: a set of <<key, value>> pairs with one pair per key.       *)
(***************************************************************************)
NewCache == {}

CacheHas(cache, key) == \E e \in cache : e[1] = key

CacheGet(cache, key) == (CHOOSE e \in cache : e[1] = key)[2]

CacheSet(cache, key, value) == {e \in cache : e[1] # key} \cup {<<key, value>>}

\* line 34 with a key that leaves the pattern out
CacheKeyTextOnly(text, pattern) == text

\* line 34
CacheKey(text, pattern) == text \o <<"-">> \o Join(pattern.keywords, <<",">>)

\* lines 40-43: the computation the cache memoizes
MatchNormalized(normalizedText, pattern) ==
  IF Len(pattern.keywords) = 1
  THEN includes(normalizedText, pattern.keywords[1])
  ELSE \A i \in 1..Len(pattern.keywords) : includes(normalizedText, pattern.keywords[i])

ComputeMatch(text, pattern) == MatchNormalized(normalizeText(text), pattern)

\* lines 33-47: the matcher's result and the cache it leaves
MatchMiss(cache, key, result) ==
  [result |-> result, cache |-> CacheSet(cache, key, result)]

MatchWithKey(cache, key, text, pattern) ==
  IF CacheHas(cache, key)
  THEN [result |-> CacheGet(cache, key), cache |-> cache]
  ELSE MatchMiss(cache, key, ComputeMatch(text, pattern))

matchPattern(cache, text, pattern) ==
  MatchWithKey(cache, CacheKey(text, pattern), text, pattern)


(***************************************************************************)
(* The document: its anchor elements in document order, each with what the *)
(* scanner reads of it: link.href (resolved by the DOM, or the empty       *)
(* string without an href attribute), link.textContent and the attributes. *)
(***************************************************************************)
EmptyAttrs == [n \in {} |-> << >>]

\* <a href="https://a.co/terms"> Terms </a>
AnchorTerms ==
  [href |-> <<"h","t","t","p","s",":","/","/","a",".","c","o","/","t","e","r","m","s">>,
   textContent |-> <<" ","T","e","r","m","s"," ">>,
   attrs |-> EmptyAttrs]

\* <a href="https://A.co/terms?x=1#y">Legal</a>: the href of AnchorTerms once cleaned
AnchorTermsAgain ==
  [href |-> <<"h","t","t","p","s",":","/","/","A",".","c","o","/","t","e","r","m","s","?","x","=","1","#","y">>,
   textContent |-> <<"L","e","g","a","l">>,
   attrs |-> EmptyAttrs]

\* <a href="https://a.co/about">About</a>: matches no pattern
AnchorAbout ==
  [href |-> <<"h","t","t","p","s",":","/","/","a",".","c","o","/","a","b","o","u","t">>,
   textContent |-> <<"A","b","o","u","t">>,
   attrs |-> EmptyAttrs]

\* <a href="https://a.co/p">Privacy Terms</a>: a terms and a policy pattern match
AnchorBoth ==
  [href |-> <<"h","t","t","p","s",":","/","/","a",".","c","o","/","p">>,
   textContent |-> <<"P","r","i","v","a","c","y"," ","T","e","r","m","s">>,
   attrs |-> EmptyAttrs]

\* <a href="https://a.co/privacy">Legal</a>: the href matches policy, the text terms
AnchorPrivacyLegal ==
  [href |-> <<"h","t","t","p","s",":","/","/","a",".","c","o","/","p","r","i","v","a","c","y">>,
   textContent |-> <<"L","e","g","a","l">>,
   attrs |-> EmptyAttrs]

\* <a>Terms</a>: link.href is the empty string
AnchorNoHref ==
  [href |-> <<>>,
   textContent |-> <<"T","e","r","m","s">>,
   attrs |-> EmptyAttrs]

\* <a href="https://a.co/x" aria-label="Data Protection" title="Data notice"></a>
AnchorAria ==
  [href |-> <<"h","t","t","p","s",":","/","/","a",".","c","o","/","x">>,
   textContent |-> <<>>,
   attrs |-> ("aria-label" :> <<"D","a","t","a"," ","P","r","o","t","e","c","t","i","o","n">>) @@
             ("title" :> <<"D","a","t","a"," ","n","o","t","i","c","e">>)]

\* <a href="https://a.co/x">More</a>: the href of AnchorAria, and no pattern matches
AnchorPlain ==
  [href |-> <<"h","t","t","p","s",":","/","/","a",".","c","o","/","x">>,
   textContent |-> <<"M","o","r","e">>,
   attrs |-> EmptyAttrs]

\* <a href="chrome-extension://e/terms">Terms</a>
AnchorExtension ==
  [href |-> <<"c","h","r","o","m","e","-","e","x","t","e","n","s","i","o","n",":","/","/","e","/","t","e","r","m","s">>,
   textContent |-> <<"T","e","r","m","s">>,
   attrs |-> EmptyAttrs]

\* <a href="http://a b/tos?q">Photos</a>: the href does not parse
AnchorMalformed ==
  [href |-> <<"h","t","t","p",":","/","/","a"," ","b","/","t","o","s","?","q">>,
   textContent |-> <<"P","h","o","t","o","s">>,
   attrs |-> EmptyAttrs]

\* <a href="https://a.co/terms">Terms</a> inside an <svg>: the href is an object
AnchorSvg ==
  [href |-> SVGAnimatedString,
   textContent |-> <<"T","e","r","m","s">>,
   attrs |-> EmptyAttrs]

\* <a href="Chrome-Extension://a b/terms">Terms</a>: the href does not parse
\* (a space in the host), so link.href is the attribute as written
AnchorExtensionMalformed ==
  [href |-> <<"C","h","r","o","m","e","-","E","x","t","e","n","s","i","o","n",":","/","/","a"," ","b","/","t","e","r","m","s">>,
   textContent |-> <<"T","e","r","m","s">>,
   attrs |-> EmptyAttrs]

\* <a href="https://a.co/pp">Privacy Policy</a>
AnchorPrivacyPolicy ==
  [href |-> <<"h","t","t","p","s",":","/","/","a",".","c","o","/","p","p">>,
   textContent |-> <<"P","r","i","v","a","c","y"," ","P","o","l","i","c","y">>,
   attrs |-> EmptyAttrs]

\* <a href="https://a.co/c">Cookie Policy</a>: policy without privacy
AnchorCookiePolicy ==
  [href |-> <<"h","t","t","p","s",":","/","/","a",".","c","o","/","c">>,
   textContent |-> <<"C","o","o","k","i","e"," ","P","o","l","i","c","y">>,
   attrs |-> EmptyAttrs]

\* the anchors a document of SpecAnchors is built from
AnchorPool ==
  {AnchorTerms, AnchorAbout, AnchorPrivacyPolicy, AnchorCookiePolicy, AnchorMalformed,
   AnchorSvg, AnchorExtension, AnchorExtensionMalformed}

\* the anchors a document of SpecExtract is built from
ExtractPool ==
  {AnchorTerms, AnchorTermsAgain, AnchorAbout, AnchorBoth, AnchorPrivacyLegal,
   AnchorNoHref, AnchorAria, AnchorPlain, AnchorExtension, AnchorMalformed}


\* the sequences over set S of length at most n
SeqsUpTo(S, n) == UNION {[1..k -> S] : k \in 0..n}

\* element.getAttribute(name) || ''
getAttributeOrEmpty(element, name) ==
  IF name \in DOMAIN element.attrs THEN element.attrs[name] ELSE << >>

(***************************************************************************)
(* extractLinks, lines 51-101.                                             *)
(***************************************************************************)
ChromeExtensionPrefix ==
  <<"c","h","r","o","m","e","-","e","x","t","e","n","s","i","o","n",":","/","/">>

\* lines 57-61: the record the map step makes of an anchor
MapLink(link) ==
  [href |-> link.href,
   text |-> IF trim(link.textContent) # << >> THEN trim(link.textContent) ELSE link.href,
   element |-> link]

\* lines 80-83 without the length test
HrefAnyLength(cleanedHref) == TRUE

\* line 83: the length test on the cleaned href
HrefLongEnough(cleanedHref) == Len(trim(cleanedHref)) > 2

RECURSIVE MatchAny(_, _, _)
MatchAnyNext(m, subjects, pattern) ==
  IF m.result THEN m ELSE MatchAny(m.cache, Tail(subjects), pattern)

\* lines 80-82: the subjects in turn, stopping at the first that matches
MatchAny(cache, subjects, pattern) ==
  IF subjects = << >> THEN [result |-> FALSE, cache |-> cache]
  ELSE MatchAnyNext(matchPattern(cache, Head(subjects), pattern), subjects, pattern)

RECURSIVE PatternLoopLast(_, _, _, _, _)
PatternLoopLastPick(m, r, k, cleanedHref) ==
  IF r.match = 0 /\ m.result /\ HrefLongEnough(cleanedHref)
  THEN [r EXCEPT !.match = k]
  ELSE r

PatternLoopLastRest(m, k, cleanedHref, text, ariaLabel) ==
  PatternLoopLastPick(m, PatternLoopLast(m.cache, k + 1, cleanedHref, text, ariaLabel),
                      k, cleanedHref)

\* lines 77-93 without the break of line 92: the last matching pattern wins
PatternLoopLast(cache, k, cleanedHref, text, ariaLabel) ==
  IF k > Len(LINK_PATTERNS) THEN [match |-> 0, cache |-> cache, tried |-> k - 1]
  ELSE PatternLoopLastRest(MatchAny(cache, <<cleanedHref, text, ariaLabel>>,
                                    LINK_PATTERNS[k]),
                           k, cleanedHref, text, ariaLabel)

RECURSIVE PatternLoop(_, _, _, _, _)
PatternLoopNext(m, k, cleanedHref, text, ariaLabel) ==
  IF m.result /\ HrefLongEnough(cleanedHref)
  THEN [match |-> k, cache |-> m.cache, tried |-> k]
  ELSE PatternLoop(m.cache, k + 1, cleanedHref, text, ariaLabel)

\* lines 77-93: the patterns from index k on; match is the index of the pattern
\* that broke the loop (0: none) and tried the number of patterns evaluated
PatternLoop(cache, k, cleanedHref, text, ariaLabel) ==
  IF k > Len(LINK_PATTERNS) THEN [match |-> 0, cache |-> cache, tried |-> k - 1]
  ELSE PatternLoopNext(MatchAny(cache, <<cleanedHref, text, ariaLabel>>, LINK_PATTERNS[k]),
                       k, cleanedHref, text, ariaLabel)

\* lines 72-74 without the test
SeenBeforeNever(seen, cleanedHref) == FALSE

\* line 72
SeenBefore(seen, cleanedHref) == cleanedHref \in seen

\* what the log keeps of one anchor
LogEntry(l, cleanedHref, skip, match, tried) ==
  [link |-> l, cleanedHref |-> cleanedHref, skip |-> skip, match |-> match, tried |-> tried]

\* lines 85-91 and 95 without the seenUrls.add of line 85
AfterLoopNoAdd(st, l, cleanedHref, r) ==
  IF r.match > 0
  THEN [acc |-> Append(st.acc, [href |-> cleanedHref, text |-> l.text,
                                type |-> LINK_PATTERNS[r.match].type]),
        seenUrls |-> st.seenUrls,
        cache |-> r.cache,
        log |-> Append(st.log, LogEntry(l, cleanedHref, "no", r.match, r.tried))]
  ELSE [st EXCEPT !.cache = r.cache,
                  !.log = Append(@, LogEntry(l, cleanedHref, "no", 0, r.tried))]

\* lines 85-91 and 95 with the seenUrls.add of line 85 after the loop
AfterLoopAddAlways(st, l, cleanedHref, r) ==
  IF r.match > 0
  THEN [acc |-> Append(st.acc, [href |-> cleanedHref, text |-> l.text,
                                type |-> LINK_PATTERNS[r.match].type]),
        seenUrls |-> st.seenUrls \cup {cleanedHref},
        cache |-> r.cache,
        log |-> Append(st.log, LogEntry(l, cleanedHref, "no", r.match, r.tried))]
  ELSE [st EXCEPT !.seenUrls = @ \cup {cleanedHref},
                  !.cache = r.cache,
                  !.log = Append(@, LogEntry(l, cleanedHref, "no", 0, r.tried))]

\* lines 85-91 and 95: the state after the pattern loop ended with r
AfterLoop(st, l, cleanedHref, r) ==
  IF r.match > 0
  THEN [acc |-> Append(st.acc, [href |-> cleanedHref, text |-> l.text,
                                type |-> LINK_PATTERNS[r.match].type]),
        seenUrls |-> st.seenUrls \cup {cleanedHref},
        cache |-> r.cache,
        log |-> Append(st.log, LogEntry(l, cleanedHref, "no", r.match, r.tried))]
  ELSE [st EXCEPT !.cache = r.cache,
                  !.log = Append(@, LogEntry(l, cleanedHref, "no", 0, r.tried))]

\* lines 64-95, with the cleaned href
ProcessCleaned(st, l, cleanedHref) ==
  IF startsWith(l.href, ChromeExtensionPrefix)
  THEN [st EXCEPT !.log = Append(@, LogEntry(l, cleanedHref, "extension", 0, 0))]
  ELSE IF SeenBefore(st.seenUrls, cleanedHref)
  THEN [st EXCEPT !.log = Append(@, LogEntry(l, cleanedHref, "seen", 0, 0))]
  ELSE AfterLoop(st, l, cleanedHref,
                 PatternLoop(st.cache, 1, cleanedHref, l.text,
                             getAttributeOrEmpty(l.element, "aria-label")))

\* lines 63-64 and 96-99 without the try and catch: what cleanUrl raises
\* ends the reduce with nothing accumulated
ProcessUncaught(st, l, cleanedHref) ==
  IF cleanedHref = TypeError
  THEN [st EXCEPT !.acc = << >>,
                  !.log = Append(@, LogEntry(l, cleanedHref, "raised", 0, 0))]
  ELSE ProcessCleaned(st, l, cleanedHref)

\* lines 63-64 and 96-99: what cleanUrl raises is caught and the accumulator
\* returned as it is
ProcessCaught(st, l, cleanedHref) ==
  IF cleanedHref = TypeError
  THEN [st EXCEPT !.log = Append(@, LogEntry(l, cleanedHref, "raised", 0, 0))]
  ELSE ProcessCleaned(st, l, cleanedHref)

\* lines 62-100: the reduce callback.  st holds the accumulator acc, the
\* locals seenUrls and the matcher's cache, and log, one entry per anchor
\* processed: what was decided for it.
ProcessLink(st, l) == ProcessCaught(st, l, cleanUrl(l.href))

\* line 53 moved out of extractLinks: one set for all calls
KeptSeenUrls == seenUrls

\* line 53: the set of seen hrefs a call starts with
NewSeenUrls == {}

\* lines 52-54: the state a call of extractLinks starts the reduce in
ExtractStart == [acc |-> << >>, seenUrls |-> NewSeenUrls, cache |-> NewCache, log |-> << >>]

RECURSIVE Reduce(_, _)
\* Array.prototype.reduce with ProcessLink, from state st
Reduce(st, ls) ==
  IF ls = << >> THEN st ELSE Reduce(ProcessLink(st, Head(ls)), Tail(ls))

\* lines 51-101: the final state of a call on the anchors of a document
extractLinks(anchors) ==
  Reduce(ExtractStart, [i \in 1..Len(anchors) |-> MapLink(anchors[i])])


(***************************************************************************)
(* sendLinksWithRetry, lines 104-126.                                      *)
(***************************************************************************)
MAX_RETRIES == 3

RETRY_DELAY == 1000

\* line 163 with half the wait
DebounceWaitHalved == RETRY_DELAY \div 2

\* line 163: the wait the observer's callback is debounced with
DEBOUNCE_WAIT == 1000

\* the step of the model's clock, in ms
TickMs == RETRY_DELAY \div 2

\* lines 107-112: the call from init with retryCount = 0, its message sent
NewSend(links, id) ==
  [id |-> id, links |-> links, retryCount |-> 0, pc |-> "sending",
   attempts |-> 1, failures |-> 0, successes |-> 0, promise |-> "pending"]

\* line 118 with <= for <
CanRetryInclusive(retryCount) == retryCount <= MAX_RETRIES

\* line 118
CanRetry(retryCount) == retryCount < MAX_RETRIES

\* lines 109-114 without the return of line 114
AfterResolveResend(send) == [send EXCEPT !.successes = @ + 1]

\* lines 109-114: the awaited message was answered
AfterResolve(send) ==
  [send EXCEPT !.pc = "done", !.successes = @ + 1, !.promise = "fulfilled"]

\* lines 115-124 with the error thrown again once the retries are used up
AfterRejectRethrow(send) ==
  [send EXCEPT !.pc = IF CanRetry(send.retryCount) THEN "delay" ELSE "failed",
               !.failures = @ + 1,
               !.promise = IF CanRetry(send.retryCount) THEN "pending" ELSE "rejected"]

\* lines 115-124: the awaited message was rejected
AfterReject(send) ==
  [send EXCEPT !.pc = IF CanRetry(send.retryCount) THEN "delay" ELSE "failed",
               !.failures = @ + 1,
               !.promise = IF CanRetry(send.retryCount) THEN "pending" ELSE "fulfilled"]

\* lines 121, 107-112: the delay is over, the recursive call sends again
AfterDelay(send) ==
  [send EXCEPT !.pc = "sending", !.retryCount = @ + 1, !.attempts = @ + 1]

Returned(send) == send.pc \in {"done", "failed"}

NoSend ==
  [id |-> 0, links |-> << >>, retryCount |-> 0, pc |-> "none",
   attempts |-> 0, failures |-> 0, successes |-> 0, promise |-> "none"]

(***************************************************************************)
(* window.setTimeout and clearTimeout.                                     *)
(***************************************************************************)
\* the timers of a kind
OfKind(ts, kind) == {t \in ts : t.kind = kind}

\* the least handle no pending debounce timer has.  The handle of a retry
\* timer is dropped at line 120 and is not modelled: such a timer has id 0.
FreshId(ts) ==
  CHOOSE n \in 1..(Cardinality(ts) + 1) :
    /\ \A t \in ts : t.id # n
    /\ \A m \in 1..(n - 1) : \E t \in ts : t.id = m

clearTimeout(ts, handle) == {t \in ts : t.id # handle}

setTimeout(ts, id, kind, wait, send) ==
  ts \cup {[id |-> id, kind |-> kind, left |-> wait, send |-> send]}

\* lines 150-157, with the timers left by line 155
DebounceSet(cleared) ==
  [timers |-> setTimeout(cleared, FreshId(OfKind(cleared, "debounce")), "debounce",
                         DEBOUNCE_WAIT, 0),
   timeout |-> FreshId(OfKind(cleared, "debounce"))]

\* lines 150-157 without the clearTimeout of line 155
DebounceCallNoClear(ts, handle) == DebounceSet(ts)

\* lines 150-157: executedFunction, a call of the debounced function: the
\* timers and the closure's timeout after it
DebounceCall(ts, handle) == DebounceSet(clearTimeout(ts, handle))

(***************************************************************************)
(* The page: init, the script's top level, the observer, cleanup.          *)
(***************************************************************************)
\* the documents a page can hold
PageDocs ==
  { << >>, <<AnchorTerms>>, <<AnchorTermsAgain>>, <<AnchorTerms, AnchorTermsAgain>> }

\* the documents a page with an SVG anchor can hold
WatchDocs == { <<AnchorSvg>>, <<AnchorSvg, AnchorTerms>> }

\* the documents of the pages modelled; a page stays in its family
DocFamilies == {PageDocs, WatchDocs}

\* the executions of the file in the document after the first: those
\* refused, and the observers those that ran have connected
NoReruns == [refused |-> 0, observers |-> 0]

NoScan ==
  [via |-> "none", links |-> << >>, prevLinks |-> << >>, unchanged |-> FALSE,
   quiet |-> 0, notes |-> "none", afterStop |-> FALSE, subscribed |-> FALSE]

PageInit(doc, rs) ==
  /\ readyState = rs
  /\ started = FALSE
  /\ domListener = FALSE
  /\ document = doc
  /\ observing = FALSE
  /\ timeout = 0
  /\ timers = {}
  /\ sends = {}
  /\ settled = NoSend
  /\ delivered = << >>
  /\ seenUrls = {}
  /\ scanCount = 0
  /\ lastScan = NoScan
  /\ changed = TRUE
  /\ quiet = DEBOUNCE_WAIT
  /\ notes = "none"
  /\ stopped = FALSE
  /\ rejects = 0
  /\ stops = 0
  /\ reruns = NoReruns

\* lines 129-138 with one delivery kept at a time: the new one replaces
\* those in flight
InitWithReplace(via, r) ==
  /\ scanCount < MaxScans
  /\ scanCount' = scanCount + 1
  /\ seenUrls' = r.seenUrls
  /\ changed' = FALSE
  /\ lastScan' = [via |-> via, links |-> r.acc, prevLinks |-> lastScan.links,
                  unchanged |-> scanCount > 0 /\ ~changed,
                  quiet |-> IF via = "debounce" THEN quiet ELSE 0,
                  notes |-> IF via = "debounce" THEN notes ELSE "none",
                  afterStop |-> stopped,
                  subscribed |-> observing]
  /\ sends' = IF Len(r.acc) > 0 THEN {NewSend(r.acc, scanCount + 1)} ELSE sends

\* lines 129-138 without the test of line 132: every result is sent
InitWithSendAlways(via, r) ==
  /\ scanCount < MaxScans
  /\ scanCount' = scanCount + 1
  /\ seenUrls' = r.seenUrls
  /\ changed' = FALSE
  /\ lastScan' = [via |-> via, links |-> r.acc, prevLinks |-> lastScan.links,
                  unchanged |-> scanCount > 0 /\ ~changed,
                  quiet |-> IF via = "debounce" THEN quiet ELSE 0,
                  notes |-> IF via = "debounce" THEN notes ELSE "none",
                  afterStop |-> stopped,
                  subscribed |-> observing]
  /\ sends' = sends \cup {NewSend(r.acc, scanCount + 1)}

\* lines 129-138, with r the final state of the call of extractLinks
InitWith(via, r) ==
  /\ scanCount < MaxScans
  /\ scanCount' = scanCount + 1
  /\ seenUrls' = r.seenUrls
  /\ changed' = FALSE
  /\ lastScan' = [via |-> via, links |-> r.acc, prevLinks |-> lastScan.links,
                  unchanged |-> scanCount > 0 /\ ~changed,
                  quiet |-> IF via = "debounce" THEN quiet ELSE 0,
                  notes |-> IF via = "debounce" THEN notes ELSE "none",
                  afterStop |-> stopped,
                  subscribed |-> observing]
  /\ sends' = IF Len(r.acc) > 0
              THEN sends \cup {NewSend(r.acc, scanCount + 1)}
              ELSE sends

\* lines 129-138: init, called from via
init(via) == InitWith(via, extractLinks(document))

\* lines 141-177 with init called at once in every readyState
RunScriptInitNow ==
  /\ ~started
  /\ started' = TRUE
  /\ init("load")
  /\ UNCHANGED domListener
  /\ observing' = capable
  /\ UNCHANGED <<reruns, capable, stops, rejects, readyState, document, timeout, timers, settled, delivered,
                 quiet, notes, stopped>>

\* lines 141-177: the top level of the injected script.  Without a
\* MutationObserver line 161 throws, after lines 141-145 have run: the
\* observer is not connected and line 177 is not reached.
RunScript ==
  /\ ~started
  /\ started' = TRUE
  /\ IF readyState = "loading"
     THEN /\ domListener' = TRUE
          /\ UNCHANGED <<seenUrls, scanCount, lastScan, changed, sends>>
     ELSE /\ init("load")
          /\ UNCHANGED domListener
  /\ observing' = capable
  /\ UNCHANGED <<reruns, capable, stops, rejects, readyState, document, timeout, timers, settled, delivered,
                 quiet, notes, stopped>>

\* the document finishes loading; line 142: the listener calls init
DOMContentLoaded ==
  /\ readyState = "loading"
  /\ readyState' = "complete"
  /\ IF domListener
     THEN init("DOMContentLoaded")
     ELSE UNCHANGED <<seenUrls, scanCount, lastScan, changed, sends>>
  /\ UNCHANGED <<reruns, capable, stops, rejects, started, domListener, document, observing, timeout, timers,
                 settled, delivered, quiet, notes, stopped>>

\* s without its element at index i
RemoveAt(s, i) == SubSeq(s, 1, i - 1) \o SubSeq(s, i + 1, Len(s))

\* the documents one change of the page's nodes leads to: an anchor added, an
\* anchor removed, or nodes that are no anchors changed
Mutations(doc) ==
  {d \in UNION {F \in DocFamilies : doc \in F} :
     \/ d = doc
     \/ \E i \in 1..Len(d) : RemoveAt(d, i) = doc
     \/ \E i \in 1..Len(doc) : RemoveAt(doc, i) = d}

\* the page changes its nodes; lines 161-168: a connected observer is
\* notified and calls the debounced function
Mutate ==
  /\ started
  /\ scanCount < MaxScans
  /\ \E d \in Mutations(document) :
       /\ document' = d
       /\ changed' = (changed \/ d # document)
  /\ IF observing
     THEN /\ timers' = DebounceCall(timers, timeout).timers
          /\ timeout' = DebounceCall(timers, timeout).timeout
          /\ quiet' = 0
          /\ notes' = IF notes = "none" THEN "one" ELSE "many"
     ELSE UNCHANGED <<timers, timeout, quiet, notes>>
  /\ UNCHANGED <<reruns, capable, stops, rejects, readyState, started, domListener, observing, sends, settled,
                 delivered, seenUrls, scanCount, lastScan, stopped>>

\* TickMs pass; a due timer is fired before more time passes
Tick ==
  /\ started
  /\ quiet < DEBOUNCE_WAIT \/ timers # {}
  /\ \A t \in timers : t.left > 0
  /\ timers' = {[t EXCEPT !.left = IF @ > TickMs THEN @ - TickMs ELSE 0] : t \in timers}
  /\ quiet' = IF quiet + TickMs < DEBOUNCE_WAIT THEN quiet + TickMs ELSE DEBOUNCE_WAIT
  /\ UNCHANGED <<reruns, capable, stops, rejects, readyState, started, domListener, document, observing, timeout,
                 sends, settled, delivered, seenUrls, scanCount, lastScan,
                 changed, notes, stopped>>

\* lines 151-154: later, the callback of a due debounce timer
DebounceFire ==
  \E t \in timers :
    /\ t.kind = "debounce"
    /\ t.left = 0
    /\ timers' = clearTimeout(timers \ {t}, timeout)
    /\ init("debounce")
    /\ notes' = "none"
    /\ UNCHANGED <<reruns, capable, stops, rejects, readyState, started, domListener, document, observing, timeout,
                   settled, delivered, quiet, stopped>>

\* the sends and the last returned send after send s has become s2
Continue(s, s2) ==
  /\ sends' = IF Returned(s2) THEN sends \ {s} ELSE (sends \ {s}) \cup {s2}
  /\ settled' = IF Returned(s2) THEN s2 ELSE settled

\* lines 120-121 with the links extracted again for the recursive call
RetryFireRescan ==
  \E t \in timers : \E s \in sends :
    /\ t.kind = "retry"
    /\ t.left = 0
    /\ s.id = t.send
    /\ timers' = timers \ {t}
    /\ Continue(s, [AfterDelay(s) EXCEPT !.links = extractLinks(document).acc])
    /\ UNCHANGED <<reruns, capable, stops, rejects, readyState, started, domListener, document, observing, timeout,
                   delivered, seenUrls, scanCount, lastScan, changed, quiet, notes,
                   stopped>>

\* line 120: the callback of a due retry timer resolves the delay
RetryFire ==
  \E t \in timers : \E s \in sends :
    /\ t.kind = "retry"
    /\ t.left = 0
    /\ s.id = t.send
    /\ timers' = timers \ {t}
    /\ Continue(s, AfterDelay(s))
    /\ UNCHANGED <<reruns, capable, stops, rejects, readyState, started, domListener, document, observing, timeout,
                   delivered, seenUrls, scanCount, lastScan, changed, quiet, notes,
                   stopped>>

\* the consumer answers the message of a send
SendResolve ==
  \E s \in sends :
    /\ s.pc = "sending"
    /\ Continue(s, AfterResolve(s))
    /\ delivered' = Append(delivered, [id |-> s.id, links |-> s.links,
                                        attempts |-> s.attempts])
    /\ UNCHANGED <<reruns, capable, stops, rejects, readyState, started, domListener, document, observing, timeout,
                   timers, seenUrls, scanCount, lastScan, changed, quiet, notes,
                   stopped>>

\* lines 115-124 with the observer disconnected at line 123, when the
\* retries are used up
SendRejectStop(limit) ==
  \E s \in sends :
    /\ s.pc = "sending"
    /\ rejects < limit
    /\ rejects' = rejects + 1
    /\ Continue(s, AfterReject(s))
    /\ timers' = IF AfterReject(s).pc = "delay"
                 THEN setTimeout(timers, 0, "retry", RETRY_DELAY, s.id)
                 ELSE timers
    /\ observing' = IF AfterReject(s).pc = "failed" THEN FALSE ELSE observing
    /\ UNCHANGED <<reruns, capable, stops, readyState, started, domListener, document, timeout,
                   delivered, seenUrls, scanCount, lastScan, changed, quiet, notes,
                   stopped>>

\* chrome.runtime.sendMessage rejects the message of a send, when fewer than
\* limit messages were rejected so far
SendReject(limit) ==
  \E s \in sends :
    /\ s.pc = "sending"
    /\ rejects < limit
    /\ rejects' = rejects + 1
    /\ Continue(s, AfterReject(s))
    /\ timers' = IF AfterReject(s).pc = "delay"
                 THEN setTimeout(timers, 0, "retry", RETRY_DELAY, s.id)
                 ELSE timers
    /\ UNCHANGED <<reruns, capable, stops, readyState, started, domListener, document, observing, timeout,
                   delivered, seenUrls, scanCount, lastScan, changed, quiet, notes,
                   stopped>>

\* the script is injected again and runs again from its first line: init is
\* called and one more observer is connected
ReinjectRuns ==
  /\ started
  /\ reruns.refused + reruns.observers < MaxInjects
  /\ reruns' = [reruns EXCEPT !.observers = @ + 1]
  /\ IF scanCount < MaxScans
     THEN init("load")
     ELSE UNCHANGED <<seenUrls, scanCount, lastScan, changed, sends>>
  /\ UNCHANGED <<capable, stops, rejects, readyState, started, domListener, document, observing,
                 timeout, timers, settled, delivered, quiet, notes, stopped>>

\* lines 195-198 on a document the script already ran in: the world of the
\* content script holds the const declarations of lines 2-171, so the script
\* is refused with a SyntaxError before its first statement and nothing of
\* the page changes
Reinject ==
  /\ started
  /\ reruns.refused + reruns.observers < MaxInjects
  /\ reruns' = [reruns EXCEPT !.refused = @ + 1]
  /\ UNCHANGED <<capable, stops, rejects, readyState, started, domListener, document, observing,
                 timeout, timers, sends, settled, delivered, seenUrls, scanCount,
                 lastScan, changed, quiet, notes, stopped>>

\* lines 171-177 with a last scan in cleanup, before the observer is
\* disconnected
CleanupFinalScan(limit) ==
  /\ started
  /\ capable
  /\ init("cleanup")
  /\ observing' = FALSE
  /\ stopped' = TRUE
  /\ stops' = IF stops < limit THEN stops + 1 ELSE stops
  /\ UNCHANGED <<reruns, capable, rejects, readyState, started, domListener, document, timeout, timers,
                 settled, delivered, quiet, notes>>

\* lines 171-177: cleanup, the listener of the window's unload event; its
\* calls are counted up to limit
Cleanup(limit) ==
  /\ started
  /\ capable
  /\ observing' = FALSE
  /\ stopped' = TRUE
  /\ stops' = IF stops < limit THEN stops + 1 ELSE stops
  /\ UNCHANGED <<reruns, capable, rejects, readyState, started, domListener, document, timeout, timers,
                 sends, settled, delivered, seenUrls, scanCount, lastScan, changed,
                 quiet, notes>>

\* the states of ex, nz and pm while another specification runs
ExIdle == [links |-> << >>, i |-> 1, st |-> [acc |-> << >>, seenUrls |-> {},
                                              cache |-> {}, log |-> << >>]]

NzIdle == [a |-> << >>, b |-> << >>, outA |-> << >>, outB |-> << >>, done |-> FALSE]

PmIdle == [cache |-> {}, n |-> 0, text |-> << >>, pattern |-> 1,
           hit |-> FALSE, result |-> FALSE]

PanelIdle ==
  [isInjecting |-> FALSE, error |-> "", links |-> 0, api |-> FALSE, results |-> 0]

InjIdle ==
  [n |-> 0, pc |-> "idle", query |-> "none", exec |-> "none", responses |-> 0,
   response |-> [status |-> "none", error |-> ""], last |-> "none"]

LisIdle == [n |-> 0, calls |-> {}, acks |-> << >>, links |-> << >>]

otherVars == <<ex, nz, pm, panel, inj, lis>>

ExtensionIdle == panel = PanelIdle /\ inj = InjIdle /\ lis = LisIdle

Init ==
  /\ \E d \in PageDocs : \E rs \in {"loading", "complete"} : PageInit(d, rs)
  /\ capable \in BOOLEAN
  /\ ex = ExIdle
  /\ nz = NzIdle
  /\ pm = PmIdle
  /\ ExtensionIdle

Next ==
  \/ RunScript /\ UNCHANGED otherVars
  \/ DOMContentLoaded /\ UNCHANGED otherVars
  \/ Mutate /\ UNCHANGED otherVars
  \/ Tick /\ UNCHANGED otherVars
  \/ DebounceFire /\ UNCHANGED otherVars
  \/ RetryFire /\ UNCHANGED otherVars
  \/ SendResolve /\ UNCHANGED otherVars
  \/ SendReject(MaxRejects) /\ UNCHANGED otherVars
  \/ Cleanup(1) /\ UNCHANGED otherVars

Spec == Init /\ [][Next]_vars

(***************************************************************************)
(* SpecRetry: the page without mutations, every message free to be         *)
(* rejected.                                                               *)
(***************************************************************************)
RetryNext ==
  \/ RunScript /\ UNCHANGED otherVars
  \/ DOMContentLoaded /\ UNCHANGED otherVars
  \/ Tick /\ UNCHANGED otherVars
  \/ RetryFire /\ UNCHANGED otherVars
  \/ SendResolve /\ UNCHANGED otherVars
  \/ SendReject(MaxScans * (MAX_RETRIES + 1)) /\ UNCHANGED otherVars
  \/ Cleanup(1) /\ UNCHANGED otherVars

SpecRetry == Init /\ [][RetryNext]_vars

(***************************************************************************)
(* SpecStop: the page with cleanup called up to MaxStops times, every      *)
(* message answered.                                                       *)
(***************************************************************************)
StopNext ==
  \/ RunScript /\ UNCHANGED otherVars
  \/ DOMContentLoaded /\ UNCHANGED otherVars
  \/ Mutate /\ UNCHANGED otherVars
  \/ Tick /\ UNCHANGED otherVars
  \/ DebounceFire /\ UNCHANGED otherVars
  \/ SendResolve /\ UNCHANGED otherVars
  \/ Cleanup(MaxStops) /\ UNCHANGED otherVars

SpecStop == Init /\ [][StopNext]_vars

(***************************************************************************)
(* SpecWatch: a loaded page with an SVG anchor, whose href makes cleanUrl  *)
(* raise; every message of a delivery can be rejected; the script can be   *)
(* injected again.                                                         *)
(***************************************************************************)
WatchInit ==
  /\ \E d \in WatchDocs : PageInit(d, "complete")
  /\ capable = TRUE
  /\ ex = ExIdle
  /\ nz = NzIdle
  /\ pm = PmIdle
  /\ ExtensionIdle

WatchNext ==
  \/ RunScript /\ UNCHANGED otherVars
  \/ Mutate /\ UNCHANGED otherVars
  \/ Tick /\ UNCHANGED otherVars
  \/ DebounceFire /\ UNCHANGED otherVars
  \/ RetryFire /\ UNCHANGED otherVars
  \/ SendResolve /\ UNCHANGED otherVars
  \/ SendReject(MAX_RETRIES + 1) /\ UNCHANGED otherVars
  \/ Reinject /\ UNCHANGED otherVars
  \/ Cleanup(1) /\ UNCHANGED otherVars

SpecWatch == WatchInit /\ [][WatchNext]_vars




\* the page while another specification runs
PageIdle == PageInit(<< >>, "complete") /\ capable = TRUE

pageVars == <<readyState, started, domListener, document, observing, timeout,
              timers, sends, settled, delivered, seenUrls, scanCount, lastScan,
              changed, quiet, notes, stopped, rejects, capable, stops, reruns>>

(***************************************************************************)
(* The injectContentScript handler (content-script.js lines 186-208) and   *)
(* the sidebar (main.tsx): injectScript and messageListener.               *)
(***************************************************************************)
\* error.message of the TypeError of line 196 when no tab is active
ErrNoTab == "Cannot read properties of undefined (reading 'id')"

\* error.message when chrome.tabs.query rejects
ErrQuery == "tabs.query rejected"

\* error.message when chrome.scripting.executeScript rejects
ErrExec == "Cannot access contents of the page"

\* the message of the rejection of the sidebar's sendMessage without a receiver
ErrSend == "Could not establish connection. Receiving end does not exist."

\* the message of the TypeError a rejected fetch gives
ErrFetch == "Failed to fetch"

\* main.tsx line 218
ErrNotOk == "Network response was not ok"

\* the message of the SyntaxError of response.json()
ErrJson == "Unexpected token < in JSON"

\* a || b of strings
OrElse(a, b) == IF a = "" THEN b ELSE a

\* content-script.js lines 200 and 202: sendResponse(response) in the handler
SendResponse(req, response) ==
  [req EXCEPT !.responses = @ + 1, !.response = response, !.pc = "responded"]

\* lines 192-203: the tab query settled: with a tab the injection is called;
\* with none line 196 throws; a rejection is caught
HandlerAfterQuery(req, outcome) ==
  IF outcome = "tab"
  THEN [req EXCEPT !.query = outcome, !.pc = "exec"]
  ELSE SendResponse([req EXCEPT !.query = outcome],
                    [status |-> "failure",
                     error |-> IF outcome = "none" THEN ErrNoTab ELSE ErrQuery])

\* lines 195-203: the injection settled
HandlerAfterExec(req, ok) ==
  IF ok
  THEN SendResponse([req EXCEPT !.exec = "ok"], [status |-> "success", error |-> ""])
  ELSE SendResponse([req EXCEPT !.exec = "error"], [status |-> "failure", error |-> ErrExec])

\* main.tsx lines 258-266: the error message injectScript sets; empty when
\* the response is a success and nothing is set
InjectError(req) ==
  IF req.pc = "rejected" THEN req.response.error
  ELSE IF req.response.status = "success" THEN ""
  ELSE OrElse(req.response.error, "Failed to inject content script")

\* main.tsx lines 258-269 without the finally: isInjecting is reset only
\* after a success
PanelAfterInjectNoFinally(pnl, req) ==
  IF InjectError(req) = ""
  THEN [pnl EXCEPT !.isInjecting = FALSE]
  ELSE [pnl EXCEPT !.error = InjectError(req)]

\* main.tsx lines 258-269: the panel after the awaited sendMessage settled
PanelAfterInject(pnl, req) ==
  IF InjectError(req) = ""
  THEN [pnl EXCEPT !.isInjecting = FALSE]
  ELSE [pnl EXCEPT !.error = InjectError(req), !.isInjecting = FALSE]

\* main.tsx lines 248-256 and 293: the button is pressed, which it can be
\* while isInjecting is false
InjectClick ==
  /\ ~panel.isInjecting
  /\ inj.n < MaxInjects
  /\ panel' = [panel EXCEPT !.isInjecting = TRUE, !.error = ""]
  /\ inj' = [InjIdle EXCEPT !.n = inj.n + 1, !.pc = "sent", !.last = inj.last]
  /\ UNCHANGED <<lis, pageVars, ex, nz, pm>>

\* no listener receives the request: the awaited sendMessage rejects
InjectUndelivered ==
  /\ inj.pc = "sent"
  /\ inj' = [inj EXCEPT !.pc = "rejected",
                        !.response = [status |-> "none", error |-> ErrSend]]
  /\ UNCHANGED <<panel, lis, pageVars, ex, nz, pm>>

\* content-script.js lines 186-192: the handler receives the request and
\* queries the active tab
HandlerReceive ==
  /\ inj.pc = "sent"
  /\ inj' = [inj EXCEPT !.pc = "query"]
  /\ UNCHANGED <<panel, lis, pageVars, ex, nz, pm>>

\* chrome.tabs.query settles
QuerySettle ==
  /\ inj.pc = "query"
  /\ \E outcome \in {"tab", "none", "error"} : inj' = HandlerAfterQuery(inj, outcome)
  /\ UNCHANGED <<panel, lis, pageVars, ex, nz, pm>>

\* chrome.scripting.executeScript settles
ExecSettle ==
  /\ inj.pc = "exec"
  /\ \E ok \in BOOLEAN : inj' = HandlerAfterExec(inj, ok)
  /\ UNCHANGED <<panel, lis, pageVars, ex, nz, pm>>

\* main.tsx lines 258-269: the awaited sendMessage settled, injectScript ends
InjectResume ==
  /\ inj.pc \in {"responded", "rejected"}
  /\ panel' = PanelAfterInject(panel, inj)
  /\ inj' = [inj EXCEPT !.pc = "idle",
                        !.last = IF InjectError(inj) = "" THEN "success" ELSE "failure"]
  /\ UNCHANGED <<lis, pageVars, ex, nz, pm>>

\* main.tsx line 235: sendResponse({ farewell: "goodbye" }) for message id
Acknowledge(l, id) == [l EXCEPT !.acks[id] = @ + 1]

\* the listener's call for message id returns
Returns(l, id) == [l EXCEPT !.calls = {c \in @ : c.id # id}]

\* main.tsx lines 186-189: a sendLinks message sets the links and clears the
\* scores flag and the error
PanelOnLinks(pnl, id) == [pnl EXCEPT !.api = FALSE, !.links = id, !.error = ""]

\* main.tsx lines 225-233: the catch block
PanelOnCatch(pnl, message) == [pnl EXCEPT !.api = FALSE, !.error = message]

\* main.tsx lines 223-224: the scores of message id are stored and shown
PanelOnResults(pnl, id) == [pnl EXCEPT !.results = id, !.api = TRUE]

\* lines 225-235 with sendResponse as the last statement of the try block:
\* a call that ends in the catch block returns without responding
ListenerCaughtNoResponse(l, id) == Returns(l, id)

\* main.tsx lines 225-235: after the catch block the call responds and returns
ListenerCaught(l, id) == Returns(Acknowledge(l, id), id)

\* the hrefs of the links a sendLinks message can carry: the content script
\* sends no empty list
PanelBatches ==
  { <<"https://a.co/terms">>, <<"https://a.co/terms", "https://a.co/privacy">> }

\* main.tsx lines 194-204: the request of the scoring fetch for links, of
\* their first three hrefs
apiEndpoint(links) ==
  [path |-> IF Len(links) <= 1 THEN "url/" ELSE "urls/",
   hrefs |-> SubSeq(links, 1, IF Len(links) < 3 THEN Len(links) ELSE 3)]

\* main.tsx lines 181-209 and 235: the listener is called with a message.  A
\* sendLinks message starts the scoring fetch and awaits it; any other
\* message is answered at once.
Receive ==
  /\ lis.n < MaxMessages
  /\ \E action \in {"sendLinks", "other"} :
       IF action = "sendLinks"
       THEN \E links \in PanelBatches :
              /\ panel' = PanelOnLinks(panel, lis.n + 1)
              /\ lis' = [lis EXCEPT !.n = @ + 1,
                                    !.calls = @ \cup {[id |-> lis.n + 1, pc |-> "fetch"]},
                                    !.acks = Append(@, 0),
                                    !.links = Append(@, links)]
       ELSE /\ panel' = panel
            /\ lis' = Acknowledge([lis EXCEPT !.n = @ + 1, !.acks = Append(@, 0),
                                              !.links = Append(@, << >>)],
                                  lis.n + 1)
  /\ UNCHANGED <<inj, pageVars, ex, nz, pm>>

\* main.tsx lines 209-220 and 225-235: the fetch of call id settles: it
\* rejects, or resolves with a response that is not ok, or with one that is
\* and whose body is then awaited
FetchSettle(id) ==
  /\ [id |-> id, pc |-> "fetch"] \in lis.calls
  /\ \E outcome \in {"reject", "notok", "ok"} :
       IF outcome = "ok"
       THEN /\ lis' = [lis EXCEPT !.calls = (@ \ {[id |-> id, pc |-> "fetch"]})
                                            \cup {[id |-> id, pc |-> "json"]}]
            /\ panel' = panel
       ELSE /\ panel' = PanelOnCatch(panel, IF outcome = "reject" THEN ErrFetch ELSE ErrNotOk)
            /\ lis' = ListenerCaught(lis, id)
  /\ UNCHANGED <<inj, pageVars, ex, nz, pm>>

\* main.tsx lines 220-235: response.json() of call id settles
JsonSettle(id) ==
  /\ [id |-> id, pc |-> "json"] \in lis.calls
  /\ \E ok \in BOOLEAN :
       IF ok
       THEN /\ panel' = PanelOnResults(panel, id)
            /\ lis' = Returns(Acknowledge(lis, id), id)
       ELSE /\ panel' = PanelOnCatch(panel, ErrJson)
            /\ lis' = ListenerCaught(lis, id)
  /\ UNCHANGED <<inj, pageVars, ex, nz, pm>>

\* the sidebar open beside a page that is left alone
PanelInit == PageIdle /\ ex = ExIdle /\ nz = NzIdle /\ pm = PmIdle /\ ExtensionIdle

PanelNext ==
  \/ InjectClick
  \/ InjectUndelivered
  \/ HandlerReceive
  \/ QuerySettle
  \/ ExecSettle
  \/ InjectResume
  \/ Receive
  \/ \E id \in 1..MaxMessages : FetchSettle(id)
  \/ \E id \in 1..MaxMessages : JsonSettle(id)

\* every awaited promise settles and every settled one is resumed; the
\* button presses and the incoming messages are the environment's
PanelFairness ==
  /\ WF_vars(InjectUndelivered \/ HandlerReceive)
  /\ WF_vars(QuerySettle)
  /\ WF_vars(ExecSettle)
  /\ WF_vars(InjectResume)
  /\ \A id \in 1..MaxMessages : WF_vars(FetchSettle(id)) /\ WF_vars(JsonSettle(id))

SpecPanel == PanelInit /\ [][PanelNext]_vars /\ PanelFairness

(***************************************************************************)
(* SpecExtract: one call of extractLinks on a document of at most          *)
(* MaxDocLen anchors of ExtractPool, the reduce taken one anchor at a      *)
(* time.                                                                   *)
(***************************************************************************)
ExtractDocs == SeqsUpTo(ExtractPool, MaxDocLen)

ExtractInit ==
  /\ PageIdle
  /\ ExtensionIdle
  /\ \E d \in ExtractDocs :
       ex = [links |-> [j \in 1..Len(d) |-> MapLink(d[j])], i |-> 1, st |-> ExtractStart]
  /\ nz = NzIdle
  /\ pm = PmIdle

\* one call of the reduce callback
ExtractStep ==
  /\ ex.i <= Len(ex.links)
  /\ ex' = [ex EXCEPT !.i = @ + 1, !.st = ProcessLink(ex.st, ex.links[ex.i])]
  /\ UNCHANGED <<pageVars, nz, pm, panel, inj, lis>>

ExtractNext == ExtractStep

SpecExtract == ExtractInit /\ [][ExtractNext]_vars

(***************************************************************************)
(* SpecAnchors: one call of extractLinks on a document of at most          *)
(* MaxDocLen anchors of AnchorPool, among them anchors whose href does not *)
(* parse, is no string or names the extension scheme.                      *)
(***************************************************************************)
AnchorDocs == SeqsUpTo(AnchorPool, MaxDocLen)

AnchorsInit ==
  /\ PageIdle
  /\ ExtensionIdle
  /\ \E d \in AnchorDocs :
       ex = [links |-> [j \in 1..Len(d) |-> MapLink(d[j])], i |-> 1, st |-> ExtractStart]
  /\ nz = NzIdle
  /\ pm = PmIdle

AnchorsNext == ExtractStep

SpecAnchors == AnchorsInit /\ [][AnchorsNext]_vars

(***************************************************************************)
(* SpecNorm: cleanUrl on two strings that differ only in letter case,      *)
(* query string or fragment.                                               *)
(***************************************************************************)
\* the strings varied: four that parse and one, relative, that does not
NormBases ==
  { <<"h","t","t","p","s",":","/","/","a",".","c","o","/","T","e","r","m","s">>,
    <<"h","t","t","p","s",":","/","/","a",".","c","o">>,
    <<"h","t","t","p",":","/","/","u","@","a",".","c","o",":","8","0","/","p">>,
    <<"m","a","i","l","t","o",":","a","@","b",".","c","o">>,
    <<"/","t","e","r","m","s">> }

NormQueries == { << >>, <<"?","x","=","1">>, <<"?","U","=","/","A",":","b">> }

NormFragments == { << >>, <<"#","y">>, <<"#","Y","?","z">> }

CaseOf(c, s) ==
  IF c = "upper" THEN toUpperCase(s) ELSE IF c = "lower" THEN toLowerCase(s) ELSE s

Variant(base, c, q, f) == CaseOf(c, base) \o q \o f

Cases == {"same", "upper", "lower"}

\* the two inputs: variants of one string, or the href of an SVG anchor
NormInit ==
  /\ PageIdle
  /\ ExtensionIdle
  /\ ex = ExIdle
  /\ pm = PmIdle
  /\ \/ \E base \in NormBases : \E ca, cb \in Cases :
          \E qa, qb \in NormQueries : \E fa, fb \in NormFragments :
            nz = [a |-> Variant(base, ca, qa, fa), b |-> Variant(base, cb, qb, fb),
                  outA |-> << >>, outB |-> << >>, done |-> FALSE]
     \/ nz = [a |-> SVGAnimatedString, b |-> SVGAnimatedString,
              outA |-> << >>, outB |-> << >>, done |-> FALSE]

Normalize ==
  /\ ~nz.done
  /\ nz' = [nz EXCEPT !.outA = cleanUrl(nz.a), !.outB = cleanUrl(nz.b), !.done = TRUE]
  /\ UNCHANGED <<pageVars, ex, pm, panel, inj, lis>>

NormNext == Normalize

SpecNorm == NormInit /\ [][NormNext]_vars

(***************************************************************************)
(* SpecMatch: one matcher made by createPatternMatcher, queried at most    *)
(* MaxQueries times with texts of MatchTexts and patterns of the table, in *)
(* any order.                                                              *)
(***************************************************************************)
MatchTexts ==
  { <<"p","o","l","i","c","y">>,
    <<"p","o","l","i","c","y","-","p","r","i","v","a","c","y">>,
    <<"P","r","i","v","a","c","y"," ","P","o","l","i","c","y">> }

MatchInit ==
  /\ PageIdle
  /\ ExtensionIdle
  /\ ex = ExIdle
  /\ nz = NzIdle
  /\ pm = [PmIdle EXCEPT !.cache = NewCache]

QueryWith(text, k, hit, m) ==
  pm' = [cache |-> m.cache, n |-> pm.n + 1, text |-> text, pattern |-> k,
         hit |-> hit, result |-> m.result]

\* one call of the matcher
Query ==
  /\ pm.n < MaxQueries
  /\ \E text \in MatchTexts : \E k \in 1..Len(LINK_PATTERNS) :
       QueryWith(text, k, CacheHas(pm.cache, CacheKey(text, LINK_PATTERNS[k])),
                 matchPattern(pm.cache, text, LINK_PATTERNS[k]))
  /\ UNCHANGED <<pageVars, ex, nz, panel, inj, lis>>

MatchNext == Query

SpecMatch == MatchInit /\ [][MatchNext]_vars


(***************************************************************************)
(* Properties of the page: scans, deliveries, retries, the debounce.       *)
(***************************************************************************)
\* no two records of links have the same href
HrefsDistinct(links) ==
  \A m, n \in 1..Len(links) : m # n => links[m].href # links[n].href

HrefsOf(links) == {links[m].href : m \in 1..Len(links)}

\* the retry timers pending for the send with this id
RetryTimers(id) == {t \in timers : t.kind = "retry" /\ t.send = id}

C3_RetryTermination ==
  \A s \in sends \cup {settled} :
    /\ s.attempts <= 4
    /\ s.pc = "failed" => s.attempts = 4 /\ s.failures = 4 /\ s.successes = 0
    /\ (s.pc # "none" /\ s.failures = s.attempts /\ s.attempts < 4) => s.pc = "delay"
    /\ s.pc = "delay" => Cardinality(RetryTimers(s.id)) = 1 /\ s.failures = s.attempts
    /\ s.pc # "delay" => RetryTimers(s.id) = {}

\* C3: a send gave up, every one of its attempts rejected.
C3_GaveUp == settled.pc = "failed"

\* C4: a send that returned after a success made one attempt more than
\* failed, at most 3 failed, exactly one succeeded and nothing of it is
\* pending; a send still active has had no success; no send is delivered
\* twice.
C4_SuccessEndsRetries ==
  /\ \A s \in sends \cup {settled} :
       /\ s.pc = "done" =>
            /\ s.successes = 1
            /\ s.attempts = s.failures + 1
            /\ s.failures <= 3
            /\ RetryTimers(s.id) = {}
            /\ \A a \in sends : a.id # s.id
       /\ s.pc \in {"sending", "delay"} => s.successes = 0
       /\ s.pc = "failed" => s.successes = 0
  /\ \A i, j \in 1..Len(delivered) : i # j => delivered[i].id # delivered[j].id

\* C4: two attempts failed and the third was accepted.
C4_ThirdAttemptAccepted ==
  /\ settled.pc = "done"
  /\ settled.failures = 2
  /\ \E i \in 1..Len(delivered) : delivered[i].id = settled.id

\* C5, as stated: a scan scheduled by the debounce never runs after cleanup.
\* The code does not keep this: cleanup disconnects the observer and leaves
\* the timer of the debounce pending, so its callback calls init.
C5_NoDebouncedScanAfterStop == lastScan.via = "debounce" => ~lastScan.afterStop

\* C6: at most one debounce timer is pending; one is pending exactly while
\* notifications wait for their scan, it is the one the closure holds, and it
\* is due a full wait after the last notification; a debounced scan runs a
\* full wait after the last of the notifications it answers.
C6_TrailingEdgeDebounce ==
  /\ Cardinality(OfKind(timers, "debounce")) <= 1
  /\ (notes # "none") <=> (OfKind(timers, "debounce") # {})
  /\ \A t \in OfKind(timers, "debounce") :
       /\ t.id = timeout
       /\ t.left + quiet = DEBOUNCE_WAIT
  /\ lastScan.via = "debounce" =>
       /\ lastScan.quiet = DEBOUNCE_WAIT
       /\ lastScan.notes # "none"

\* C6: one scan answered a burst of notifications.
C6_BurstScannedOnce ==
  /\ lastScan.via = "debounce"
  /\ lastScan.notes = "many"
  /\ notes = "none"
  /\ OfKind(timers, "debounce") = {}


(***************************************************************************)
(* Properties of one call of extractLinks, of cleanUrl and of the matcher. *)
(***************************************************************************)
\* the three subjects of a mapped anchor: cleaned href, text, aria-label
SubjectsOf(l) ==
  <<cleanUrl(l.href), l.text, getAttributeOrEmpty(l.element, "aria-label")>>

\* some subject of the anchor matches pattern k, computed without a cache
PatternMatches(l, k) ==
  \E i \in 1..3 : ComputeMatch(SubjectsOf(l)[i], LINK_PATTERNS[k])

AnyPatternMatches(l) == \E k \in 1..Len(LINK_PATTERNS) : PatternMatches(l, k)

\* the lowest index of a pattern the anchor matches
FirstMatching(l) ==
  CHOOSE k \in 1..Len(LINK_PATTERNS) :
    PatternMatches(l, k) /\ \A j \in 1..(k - 1) : ~PatternMatches(l, j)

\* the number of records the first j anchors of the log gave
RecordsUpTo(log, j) == Cardinality({i \in 1..j : log[i].match > 0})

\* C7: every anchor that is examined, has a long enough href and matches some
\* pattern is reported with the type of the lowest-index pattern that one of
\* its three subjects matches, and that pattern is the last one evaluated
\* for it; an anchor that matches no pattern is not reported.
C7_FirstMatchWins ==
  /\ Len(ex.st.acc) = RecordsUpTo(ex.st.log, Len(ex.st.log))
  /\ \A j \in 1..Len(ex.st.log) :
       (ex.st.log[j].skip = "no" /\ Len(trim(ex.st.log[j].cleanedHref)) > 2) =>
         IF AnyPatternMatches(ex.st.log[j].link)
         THEN /\ ex.st.log[j].match = FirstMatching(ex.st.log[j].link)
              /\ ex.st.log[j].tried = ex.st.log[j].match
              /\ ex.st.acc[RecordsUpTo(ex.st.log, j)].type =
                   LINK_PATTERNS[FirstMatching(ex.st.log[j].link)].type
              /\ ex.st.acc[RecordsUpTo(ex.st.log, j)].href = ex.st.log[j].cleanedHref
         ELSE ex.st.log[j].match = 0

\* C7: an anchor was reported that matches a pattern of each type.
C7_BothTypesMatch ==
  \E j \in 1..Len(ex.st.log) :
    /\ ex.st.log[j].match > 0
    /\ \E k \in 1..Len(LINK_PATTERNS) :
         /\ k > ex.st.log[j].match
         /\ PatternMatches(ex.st.log[j].link, k)
         /\ LINK_PATTERNS[k].type # LINK_PATTERNS[ex.st.log[j].match].type

\* C8: no record of the output has an href of length 2 or less, no such href
\* is in the set of seen hrefs, and an anchor with such an href gives no
\* record.
C8_ShortHrefExcluded ==
  /\ \A j \in 1..Len(ex.st.acc) : Len(ex.st.acc[j].href) > 2
  /\ \A h \in ex.st.seenUrls : Len(h) > 2
  /\ \A j \in 1..Len(ex.st.log) :
       Len(ex.st.log[j].cleanedHref) <= 2 => ex.st.log[j].match = 0

\* C8: an anchor whose text matches a pattern and whose href is too short was
\* examined and left out.
C8_ShortMatchingAnchorSeen ==
  \E j \in 1..Len(ex.st.log) :
    /\ Len(ex.st.log[j].cleanedHref) <= 2
    /\ ex.st.log[j].skip = "no"
    /\ AnyPatternMatches(ex.st.log[j].link)
    /\ ex.st.log[j].match = 0

\* C9: two strings that parse as URLs and differ only in letter case, query
\* string or fragment have the same cleaned form.
C9_NormalizationEquivalence ==
  (nz.done /\ ParseURL(nz.a).ok /\ ParseURL(nz.b).ok) => nz.outA = nz.outB

\* C9: the two strings differ in case, query and fragment.
C9_DifferInCaseQueryFragment ==
  /\ nz.done
  /\ nz.a = <<"H","T","T","P","S",":","/","/","A",".","C","O","/","T","E","R","M","S","?","x","=","1","#","y">>
  /\ nz.b = <<"h","t","t","p","s",":","/","/","a",".","c","o","/","t","e","r","m","s">>
  /\ nz.outA = <<"h","t","t","p","s",":","/","/","a",".","c","o","/","t","e","r","m","s">>

\* C10: the result of a query is the result of the computation without a
\* cache, whatever was queried before; every entry of the cache holds that
\* result for every text and pattern with its key, so no two pairs of a text
\* and a pattern with different results share a key.
C10_CacheTransparency ==
  /\ pm.n > 0 => pm.result = ComputeMatch(pm.text, LINK_PATTERNS[pm.pattern])
  /\ \A e \in pm.cache : \A text \in MatchTexts : \A k \in 1..Len(LINK_PATTERNS) :
       CacheKey(text, LINK_PATTERNS[k]) = e[1] =>
         e[2] = ComputeMatch(text, LINK_PATTERNS[k])

\* C10: a query was answered from the cache after another pair was queried.
C10_CacheHitAfterOthers ==
  /\ pm.hit
  /\ Cardinality(pm.cache) > 1
  /\ pm.result


\* the first anchor of the log whose href cleans to h
FirstWithHref(log, h) ==
  CHOOSE i \in 1..Len(log) :
    /\ log[i].cleanedHref = h
    /\ \A k \in 1..(i - 1) : log[k].cleanedHref # h

\* the first anchor of the log whose href cleans to h and that matches a
\* pattern
FirstMatchingWithHref(log, h) ==
  CHOOSE i \in 1..Len(log) :
    /\ log[i].cleanedHref = h /\ AnyPatternMatches(log[i].link)
    /\ \A k \in 1..(i - 1) :
         ~(log[k].cleanedHref = h /\ AnyPatternMatches(log[k].link))

\* C11, as stated: no two records of one extraction have the same href, and
\* a record carries the text and type of the first anchor in document order
\* whose href normalizes to the record's href.  The code does not keep the
\* second part: an anchor that matches no pattern is not recorded as seen,
\* so a later anchor with the same href that matches is the one reported.
C11_FirstAnchorReported ==
  /\ HrefsDistinct(ex.st.acc)
  /\ \A j \in 1..Len(ex.st.acc) :
       /\ ex.st.acc[j].text = ex.st.log[FirstWithHref(ex.st.log, ex.st.acc[j].href)].link.text
       /\ AnyPatternMatches(ex.st.log[FirstWithHref(ex.st.log, ex.st.acc[j].href)].link)

\* C11, amended: no two records of one extraction have the same href; a
\* record carries the text and type of the first anchor in document order
\* that has the record's href and matches a pattern, and every later anchor
\* with that href is skipped as seen.
C11_FirstMatchingAnchorReported ==
  /\ HrefsDistinct(ex.st.acc)
  /\ \A j \in 1..Len(ex.st.acc) :
       /\ ex.st.acc[j].text =
            ex.st.log[FirstMatchingWithHref(ex.st.log, ex.st.acc[j].href)].link.text
       /\ ex.st.acc[j].type =
            LINK_PATTERNS[FirstMatching(
              ex.st.log[FirstMatchingWithHref(ex.st.log, ex.st.acc[j].href)].link)].type
       /\ \A k \in 1..Len(ex.st.log) :
            (k > FirstMatchingWithHref(ex.st.log, ex.st.acc[j].href)
               /\ ex.st.log[k].cleanedHref = ex.st.acc[j].href)
              => ex.st.log[k].skip = "seen"

\* C11: two anchors with different texts and the same cleaned href were
\* processed, the first reported and the second skipped.
C11_SecondSuppressed ==
  \E i, k \in 1..Len(ex.st.log) :
    /\ i < k
    /\ ex.st.log[i].cleanedHref = ex.st.log[k].cleanedHref
    /\ ex.st.log[i].link.text # ex.st.log[k].link.text
    /\ ex.st.log[i].match > 0
    /\ ex.st.log[k].skip = "seen"
    /\ AnyPatternMatches(ex.st.log[k].link)

\* C12: an anchor none of whose three subjects matches a pattern gives no
\* record; every record is of an anchor that matches some pattern; and the
\* set of seen hrefs holds the hrefs of the reported anchors and no other.
C12_OnlyMatchingReported ==
  /\ \A j \in 1..Len(ex.st.log) :
       ~AnyPatternMatches(ex.st.log[j].link) => ex.st.log[j].match = 0
  /\ \A j \in 1..Len(ex.st.acc) : \E i \in 1..Len(ex.st.log) :
       /\ ex.st.log[i].match > 0
       /\ ex.st.log[i].cleanedHref = ex.st.acc[j].href
       /\ AnyPatternMatches(ex.st.log[i].link)
  /\ ex.st.seenUrls =
       {ex.st.log[i].cleanedHref : i \in {k \in 1..Len(ex.st.log) : ex.st.log[k].match > 0}}

\* C12: an anchor that matches no pattern was examined and dropped, its href
\* not in the set of seen hrefs.
C12_NonMatchingDropped ==
  \E j \in 1..Len(ex.st.log) :
    /\ ex.st.log[j].skip = "no"
    /\ ~AnyPatternMatches(ex.st.log[j].link)
    /\ ex.st.log[j].match = 0
    /\ ex.st.log[j].cleanedHref \notin ex.st.seenUrls


\* the anchor of the log that gave record j of the output
RecordAnchor(log, j) ==
  CHOOSE i \in 1..Len(log) : log[i].match > 0 /\ RecordsUpTo(log, i) = j

\* the head of the fallback chain of a title: the title attribute, else the
\* aria-label, else the anchor text; empty when the chain goes on to the
\* document's title
TitleChain(l) ==
  IF getAttributeOrEmpty(l.element, "title") # << >>
  THEN getAttributeOrEmpty(l.element, "title")
  ELSE IF getAttributeOrEmpty(l.element, "aria-label") # << >>
  THEN getAttributeOrEmpty(l.element, "aria-label")
  ELSE trim(l.element.textContent)

\* C19, as stated: every record of the output has a pageTitle, resolved from
\* the title attribute, else the aria-label, else the anchor text, else the
\* document's title or a literal.  The code does not keep this: the records
\* pushed at lines 86-90 have the fields href, text and type and no other.
C19_PageTitleResolved ==
  \A j \in 1..Len(ex.st.acc) :
    /\ "pageTitle" \in DOMAIN ex.st.acc[j]
    /\ ex.st.acc[j].pageTitle # << >>
    /\ TitleChain(ex.st.log[RecordAnchor(ex.st.log, j)].link) # << >> =>
         ex.st.acc[j].pageTitle = TitleChain(ex.st.log[RecordAnchor(ex.st.log, j)].link)


(***************************************************************************)
(* Properties of the script's start, of cleanup and of deliveries.         *)
(***************************************************************************)
\* C13, as stated: the subscription to mutations is made only after one pass
\* has run, and that first pass runs before the subscription, also when the
\* document is loading at injection.  The code does not keep this for a
\* loading document: line 142 only registers init for DOMContentLoaded and
\* line 165 subscribes at once.
C13_PassBeforeSubscription ==
  /\ observing => scanCount >= 1
  /\ scanCount = 1 => ~lastScan.subscribed

\* C13, amended: in a document that is not loading at injection one pass runs
\* first and the subscription is made after it; in a loading document no pass
\* runs at start, init is registered for DOMContentLoaded, and the first pass
\* runs later, at DOMContentLoaded or as a debounced scan.
C13_StartOrdering ==
  /\ (started /\ ~domListener) => scanCount >= 1
  /\ lastScan.via = "load" => (scanCount = 1 /\ ~lastScan.subscribed /\ ~domListener)
  /\ (started /\ scanCount = 0) => (readyState = "loading" /\ domListener)
  /\ (started /\ readyState = "loading") =>
       (domListener /\ lastScan.via \in {"none", "debounce"})
  /\ lastScan.via = "DOMContentLoaded" => (domListener /\ readyState = "complete")

\* C13: the script was injected into a loading document and the first pass
\* ran at DOMContentLoaded, the observer already connected.
C13_FirstPassAtDOMContentLoaded ==
  /\ domListener
  /\ scanCount = 1
  /\ lastScan.via = "DOMContentLoaded"
  /\ lastScan.subscribed

\* what a call of cleanup may change besides its count
cleanupVars ==
  <<readyState, started, domListener, document, observing, timeout, timers, sends,
    settled, delivered, seenUrls, scanCount, lastScan, changed, quiet, notes,
    stopped, rejects, capable>>

\* C14: every call of cleanup leaves the observer disconnected, and a call
\* after the first changes nothing.
C14_CleanupIdempotent ==
  [][stops' > stops =>
       /\ ~observing'
       /\ stopped'
       /\ stops >= 1 => UNCHANGED cleanupVars]_vars

\* C14: cleanup was called twice with a debounced scan pending.
C14_CalledTwice ==
  /\ stops >= 2
  /\ ~observing
  /\ OfKind(timers, "debounce") # {}

\* C15: the promise of a send is never rejected: it is pending while the send
\* is active and fulfilled once it returned, also after 4 failed attempts;
\* nothing is left of a send that gave up; and the scan that started a send
\* has returned while the send is pending.
C15_DeliveryNeverRejects ==
  /\ \A s \in sends \cup {settled} :
       /\ s.promise # "rejected"
       /\ s.pc \in {"done", "failed"} <=> s.promise = "fulfilled"
       /\ s.pc \in {"sending", "delay"} <=> s.promise = "pending"
  /\ settled.pc = "failed" =>
       /\ \A a \in sends : a.id # settled.id
       /\ RetryTimers(settled.id) = {}
       /\ \A i \in 1..Len(delivered) : delivered[i].id # settled.id
  /\ \A s \in sends : s.id <= scanCount

\* C15: all 4 attempts of a send failed and its promise is fulfilled.
C15_GaveUpFulfilled ==
  /\ settled.pc = "failed"
  /\ settled.promise = "fulfilled"
  /\ settled.failures = 4

\* C16, as stated: without a MutationObserver the start fails as a whole, and
\* no pass is performed.  The code does not keep this: lines 141-145 call init
\* or register it before line 161 throws.
C16_NoPassWithoutObserver ==
  (started /\ ~capable) => (scanCount = 0 /\ sends = {} /\ delivered = << >>)

\* C20, as stated: when a debounced scan starts, no send of an earlier batch
\* is active.  The code does not keep this: init starts a delivery and does
\* not await it.
C20_NoScanWhileDeliveryPending ==
  [][(scanCount' = scanCount + 1 /\ lastScan'.via = "debounce") => sends = {}]_vars

\* C20, amended: a scan can start while sends of earlier batches are active;
\* it leaves them and their retry timers as they are and adds at most one
\* send, that of its own batch.
C20_ScanLeavesDeliveriesAlone ==
  [][scanCount' = scanCount + 1 =>
       /\ sends \subseteq sends'
       /\ \A s \in sends' \ sends : s.id = scanCount' /\ s.links = lastScan'.links
       /\ Cardinality(sends' \ sends) <= 1
       /\ OfKind(timers', "retry") = OfKind(timers, "retry")]_vars

\* C20: the sends of two batches are active at once.
C20_TwoDeliveriesInFlight ==
  \E a, b \in sends : a.id < b.id /\ lastScan.via = "debounce"

(***************************************************************************)
(* The injectContentScript request and the sidebar's injectScript.         *)
(***************************************************************************)
\* the response the handler's code paths give for the way the tab query and
\* the injection settled
ExpectedResponse(req) ==
  IF req.query = "tab" /\ req.exec = "ok" THEN [status |-> "success", error |-> ""]
  ELSE IF req.query = "none" THEN [status |-> "failure", error |-> ErrNoTab]
  ELSE IF req.query = "error" THEN [status |-> "failure", error |-> ErrQuery]
  ELSE [status |-> "failure", error |-> ErrExec]

\* a request the handler received has no response while the handler awaits
\* and exactly one once it is through, the one its outcomes call for
OneResponsePerRequest ==
  /\ inj.responses <= 1
  /\ inj.pc \in {"sent", "query", "exec", "rejected"} => inj.responses = 0
  /\ inj.pc = "responded" => inj.responses = 1 /\ inj.response = ExpectedResponse(inj)
  /\ inj.pc = "idle" /\ inj.query # "none"
       => inj.responses = 1 /\ inj.response = ExpectedResponse(inj)

\* the step in which the awaited sendMessage has settled and injectScript ends
InjectScriptEnds == inj.pc \in {"responded", "rejected"} /\ inj'.pc = "idle"

\* the awaited sendMessage gave a response with status 'success'
GotSuccess == inj.pc = "responded" /\ inj.response.status = "success"

\* C17 as stated: every injectContentScript request the handler receives gets
\* exactly one response, 'success' when the tab query and the injection both
\* succeeded and 'failure' with the error's message otherwise, and when
\* injectScript ends isInjecting is false and the error string is set exactly
\* when the response was not a success.  The error string belongs to the
\* listener as well, so it can be set at the end of a successful injection.
C17_ErrorSetIffNotSuccess ==
  /\ []OneResponsePerRequest
  /\ (inj.pc = "query") ~> (inj.responses = 1)
  /\ [][InjectScriptEnds => ~panel'.isInjecting /\ (panel'.error # "" <=> ~GotSuccess)]_vars

\* C17 (amended): every injectContentScript request the handler receives gets
\* exactly one response, 'success' when the tab query and the injection both
\* succeeded and 'failure' with the error's message otherwise (no active tab
\* included); injectScript ends with isInjecting false on every path, sets the
\* error string to the message when the response was not a success, and
\* leaves the error string as the listener left it when it was.
C17_InjectionAnswered ==
  /\ []OneResponsePerRequest
  /\ (inj.pc = "query") ~> (inj.responses = 1)
  /\ [][InjectScriptEnds =>
          /\ ~panel'.isInjecting
          /\ ~GotSuccess => panel'.error = InjectError(inj) /\ panel'.error # ""
          /\ GotSuccess => panel'.error = panel.error]_vars

\* C17 witness: with no active tab the request got its failure response and
\* injectScript ended showing that message
C17_NoTabReported ==
  /\ inj.pc = "idle"
  /\ inj.query = "none"
  /\ inj.responses = 1
  /\ inj.response = [status |-> "failure", error |-> ErrNoTab]
  /\ panel.error = ErrNoTab
  /\ ~panel.isInjecting

(***************************************************************************)
(* The sidebar's listener and its acknowledgement.                         *)
(***************************************************************************)
\* C18: for every message the sidebar's listener receives, whatever its
\* action and however the scoring fetch ends (rejected, not ok, ok with a
\* body that parses or not), sendResponse is called at most once, it has not
\* been called exactly while the call still awaits, and it is eventually
\* called.
C18_AlwaysAcknowledged ==
  /\ [](\A id \in 1..lis.n :
          /\ lis.acks[id] <= 1
          /\ lis.acks[id] = 0 <=> \E c \in lis.calls : c.id = id)
  /\ \A id \in 1..MaxMessages :
       (lis.n >= id) ~> (lis.n >= id /\ lis.acks[id] = 1)

\* C18 witness: the fetch for the stored links came back not ok, the error
\* is shown, and that message has its one acknowledgement
C18_NotOkAcknowledged ==
  /\ panel.links >= 1
  /\ panel.error = ErrNotOk
  /\ lis.acks[panel.links] = 1
  /\ \A c \in lis.calls : c.id # panel.links

(***************************************************************************)
(* Properties of the batches: their payload, their order, their content.   *)
(***************************************************************************)
\* C21: in every step the links of a batch in flight stay what they were,
\* whether the step is a retry, a mutation or another scan; the batch that
\* returns or is delivered in the step has those links; and the step in which
\* a batch is sent again calls no extraction.
C21_RetryPayloadSame ==
  [][\A s \in sends :
       /\ \A s2 \in sends' : s2.id = s.id =>
            /\ s2.links = s.links
            /\ s2.attempts > s.attempts =>
                 scanCount' = scanCount /\ lastScan' = lastScan /\ seenUrls' = seenUrls
       /\ settled' # settled /\ settled'.id = s.id => settled'.links = s.links
       /\ \A i \in (Len(delivered) + 1)..Len(delivered') :
            delivered'[i].id = s.id => delivered'[i].links = s.links]_vars

\* C21 witness: a batch was sent a second time after a later scan, made
\* while it waited, had found other links.
C21_RetriedAfterOtherScan ==
  \E s \in sends :
    /\ s.attempts = 2
    /\ s.pc = "sending"
    /\ scanCount > s.id
    /\ lastScan.links # s.links
    /\ Len(s.links) > 0

\* C28, as stated, for the batches delivered on a retry: such a batch is
\* never delivered after the batch of a later scan, so the last batch the
\* consumer got is the one of the latest scan delivered.  The code does not
\* keep this: a batch waits RETRY_DELAY for its retry while a later scan
\* sends its own batch, and the retry then delivers the older batch.
C28_DeliveredInScanOrder ==
  \A i, j \in 1..Len(delivered) :
    i < j /\ delivered[j].attempts > 1 => delivered[i].id < delivered[j].id

\* C30: every batch being sent, returned or delivered holds at least one
\* record; a scan that found records starts one delivery, of those records,
\* and a scan that found none starts no delivery and leaves the deliveries in
\* flight and what the consumer has received as they were.
C30_EmptyNeverSent ==
  /\ [](/\ \A s \in sends : Len(s.links) > 0
        /\ settled.pc # "none" => Len(settled.links) > 0
        /\ \A i \in 1..Len(delivered) : Len(delivered[i].links) > 0)
  /\ [][scanCount' > scanCount =>
          /\ delivered' = delivered
          /\ sends' = IF lastScan'.links = << >> THEN sends
                      ELSE sends \cup {NewSend(lastScan'.links, scanCount')}]_vars

\* C30 witness: the consumer has the batch of a scan, and the next scan, of
\* the document without its matching links, found nothing and sent nothing.
C30_EmptyScanAfterDelivery ==
  /\ lastScan.links = << >>
  /\ Len(lastScan.prevLinks) > 0
  /\ document = << >>
  /\ sends = {}
  /\ Len(delivered) = 1
  /\ delivered[1].links = lastScan.prevLinks

(***************************************************************************)
(* The length of the debounce's quiet window.                              *)
(***************************************************************************)
\* C26, as stated: a scan triggered by mutations runs 500 ms after the last
\* notification of its burst.  The code does not keep this: the observer's
\* callback is debounced with 1000.
C26_QuietWindow500 == lastScan.via = "debounce" => lastScan.quiet = 500

\* C26 (amended): the quiet window is 1000 ms.  A scan triggered by mutations
\* runs 1000 ms after the last notification of its burst; 500 ms after a
\* notification its scan has not run and is due in another 500 ms; and a
\* notification that comes while a burst waits, up to 1000 ms after the one
\* before, joins the burst: no scan runs for it and the one timer is due
\* 1000 ms later.
C26_QuietWindow1000 ==
  /\ [](/\ lastScan.via = "debounce" => lastScan.quiet = 1000
        /\ notes # "none" =>
             \E t \in timers : t.kind = "debounce" /\ t.left = 1000 - quiet)
  /\ [][quiet' = 0 /\ quiet # 0 /\ notes # "none" =>
          /\ notes' = "many"
          /\ scanCount' = scanCount
          /\ OfKind(timers', "debounce") =
               {[id |-> timeout', kind |-> "debounce", left |-> 1000, send |-> 0]}]_vars

\* C26 witness: 500 ms after the last notification of a burst of several no
\* scan has answered them and one is due in 500 ms.
C26_HalfwayThroughWindow ==
  /\ notes = "many"
  /\ quiet = 500
  /\ lastScan.via = "load"
  /\ scanCount = 1
  /\ \E t \in timers : t.kind = "debounce" /\ t.left = 500

(***************************************************************************)
(* cleanUrl on what does not parse.                                        *)
(***************************************************************************)
\* s is t up to, and without, the first "?" or "#" of t
CutAtQueryOrFragment(s, t) ==
  /\ Len(s) <= Len(t)
  /\ s = SubSeq(t, 1, Len(s))
  /\ \A i \in 1..Len(s) : s[i] \notin {"?", "#"}
  /\ Len(s) < Len(t) => t[Len(s) + 1] \in {"?", "#"}

\* C24, as stated: for an input that does not parse as a URL cleanUrl does
\* not raise and returns the input lower-cased, every character kept.  The
\* code does not keep this: the fallback drops what follows the first "#" or
\* "?", and for an input that is no string it raises.
C24_FallbackKeepsInput ==
  nz.done /\ ~ParseURL(nz.a).ok => nz.outA # TypeError /\ nz.outA = toLowerCase(nz.a)

\* C24 (amended): for a string that does not parse as a URL cleanUrl does not
\* raise and returns the string lower-cased up to, and without, its first "?"
\* or "#"; for the href of an SVG anchor, which is no string, it raises.
C24_FallbackCutsInput ==
  nz.done /\ ~ParseURL(nz.a).ok =>
    IF IsString(nz.a)
    THEN nz.outA # TypeError /\ CutAtQueryOrFragment(nz.outA, toLowerCase(nz.a))
    ELSE nz.outA = TypeError

\* C24 witness: cleanUrl has returned "/terms" for "/TERMS?U=/A:b#y", which
\* does not parse.
C24_RelativeWithQueryCleaned ==
  /\ nz.done
  /\ nz.a = <<"/","T","E","R","M","S","?","U","=","/","A",":","b","#","y">>
  /\ ~ParseURL(nz.a).ok
  /\ nz.outA = <<"/","t","e","r","m","s">>

(***************************************************************************)
(* Properties of extractLinks on anchors with unusual hrefs.               *)
(***************************************************************************)
\* the anchors processed so far are the first ones of the document, one log
\* entry each
AllProcessed ==
  /\ Len(ex.st.log) = ex.i - 1
  /\ \A j \in 1..Len(ex.st.log) : ex.st.log[j].link = ex.links[j]

\* C23, as stated: an anchor whose href does not parse as a URL gives no
\* record, whatever its href, text or aria-label match, and the anchors after
\* it are processed.  The code does not keep this: cleanUrl returns such an
\* href cleaned by hand and the anchor is classified like any other.
C23_UnparseableDiscarded ==
  /\ AllProcessed
  /\ \A j \in 1..Len(ex.st.log) :
       (IsString(ex.st.log[j].link.href) /\ ~ParseURL(ex.st.log[j].link.href).ok)
         => ex.st.log[j].match = 0

\* C25, as stated: no record of the output has an href that starts with
\* chrome-extension://, and no such href is in the set of seen hrefs.  The
\* code does not keep this: line 67 tests the href as the DOM gives it, and
\* an href that does not parse keeps its capitals until cleanUrl lowers them.
C25_NoExtensionHref ==
  /\ \A j \in 1..Len(ex.st.acc) : ~startsWith(ex.st.acc[j].href, ChromeExtensionPrefix)
  /\ \A h \in ex.st.seenUrls : ~startsWith(h, ChromeExtensionPrefix)

\* the index of ['privacy'] and of ['privacy', 'policy'] in the table
PrivacyEntry == 4

PrivacyPolicyEntry == 5

\* the lowest index of a pattern other than ['privacy', 'policy'] that the
\* anchor matches
FirstMatchingOther(l) ==
  CHOOSE k \in 1..Len(LINK_PATTERNS) \ {PrivacyPolicyEntry} :
    /\ PatternMatches(l, k)
    /\ \A j \in 1..(k - 1) : j # PrivacyPolicyEntry => ~PatternMatches(l, j)

\* C27: no anchor is classified through the entry ['privacy', 'policy'];
\* every subject it matches the entry ['privacy'] matches too; and every
\* record has the type of the first of the other entries its anchor matches,
\* so the output is what the table without the entry gives.
C27_PrivacyPolicyNeverDecides ==
  /\ LINK_PATTERNS[PrivacyEntry].keywords = << <<"p","r","i","v","a","c","y">> >>
  /\ LINK_PATTERNS[PrivacyPolicyEntry].keywords =
       << <<"p","r","i","v","a","c","y">>, <<"p","o","l","i","c","y">> >>
  /\ \A j \in 1..Len(ex.st.log) :
       ex.st.log[j].skip = "no" =>
         /\ ex.st.log[j].match # PrivacyPolicyEntry
         /\ \A i \in 1..3 :
              ComputeMatch(SubjectsOf(ex.st.log[j].link)[i], LINK_PATTERNS[PrivacyPolicyEntry])
                => ComputeMatch(SubjectsOf(ex.st.log[j].link)[i], LINK_PATTERNS[PrivacyEntry])
         /\ ex.st.log[j].match > 0 =>
              /\ ex.st.log[j].match = FirstMatchingOther(ex.st.log[j].link)
              /\ ex.st.acc[RecordsUpTo(ex.st.log, j)].type =
                   LINK_PATTERNS[FirstMatchingOther(ex.st.log[j].link)].type
         /\ ex.st.log[j].match = 0 /\ Len(trim(ex.st.log[j].cleanedHref)) > 2 =>
              \A k \in 1..Len(LINK_PATTERNS) : ~PatternMatches(ex.st.log[j].link, k)

\* C27 witness: an anchor whose text matches ['privacy', 'policy'] was
\* classified through ['privacy'], the loop ended before the later entry.
C27_DecidedByPrivacy ==
  \E j \in 1..Len(ex.st.log) :
    /\ PatternMatches(ex.st.log[j].link, PrivacyPolicyEntry)
    /\ ex.st.log[j].match = PrivacyEntry
    /\ ex.st.log[j].tried = PrivacyEntry
    /\ ex.st.acc[RecordsUpTo(ex.st.log, j)].type = "policy"

(***************************************************************************)
(* The watcher: what ends the subscription, and how many there are.        *)
(***************************************************************************)
\* the records a scan of doc gives when every anchor with a string href
\* matches: one per such anchor with a different cleaned href
StringAnchors(doc) == {i \in 1..Len(doc) : IsString(doc[i].href)}

\* C22: from the script's start until cleanup the observer stays connected,
\* whatever the scans and deliveries did; a scan of a document with an anchor
\* that raises reports the other anchors; every change of the document is
\* notified; and every notification leaves the debounce timer, whose callback
\* is the next scan, due a full wait later.
C22_WatcherStaysActive ==
  /\ [](/\ started /\ capable /\ ~stopped => observing
        /\ scanCount > 0 /\ ~changed =>
             Len(lastScan.links) = Cardinality({cleanUrl(document[i].href) :
                                                  i \in StringAnchors(document)})
        /\ notes # "none" => \E t \in timers : t.kind = "debounce" /\ t.id = timeout)
  /\ [][/\ observing /\ document' # document => notes' # "none" /\ quiet' = 0
        /\ notes' # "none" /\ (notes' # notes \/ quiet' < quiet) =>
             \E t \in timers' :
               t.kind = "debounce" /\ t.id = timeout' /\ t.left = DEBOUNCE_WAIT]_vars

\* C22 witness: a delivery has used up its retries and returned, the
\* document holds an anchor that raises, and a mutation notification has just
\* set the debounce timer.
C22_NotifiedAfterGivingUp ==
  /\ settled.pc = "failed"
  /\ sends = {}
  /\ \E i \in 1..Len(document) : ~IsString(document[i].href)
  /\ observing
  /\ notes = "one"
  /\ quiet = 0
  /\ timers = {[id |-> timeout, kind |-> "debounce", left |-> DEBOUNCE_WAIT, send |-> 0]}

\* the MutationObservers connected in the document
Observers == (IF observing THEN 1 ELSE 0) + reruns.observers

\* C29: whatever injections and cleanups the document has seen, at most one
\* observer is connected and at most one debounce timer is pending; an
\* injection after the first changes nothing of the page; and the scan that
\* answers a burst is one call of init, which starts at most one delivery
\* and leaves no debounce timer.
C29_OneSubscription ==
  /\ [](Observers <= 1 /\ Cardinality(OfKind(timers, "debounce")) <= 1)
  /\ [][/\ reruns' # reruns => UNCHANGED <<observing, timers, timeout, sends, scanCount,
                                          lastScan, seenUrls, notes, quiet>>
        /\ (scanCount' # scanCount /\ lastScan'.via = "debounce") =>
             /\ scanCount' = scanCount + 1
             /\ Cardinality(sends' \ sends) <= 1
             /\ notes # "none" /\ notes' = "none"
             /\ OfKind(timers', "debounce") = {}]_vars

\* C29 witness: the script was injected into the document twice more, and a
\* burst of notifications then waits for its one scan.
C29_BurstAfterReinjection ==
  /\ reruns.refused = 2
  /\ Observers = 1
  /\ notes = "many"
  /\ Cardinality(OfKind(timers, "debounce")) = 1
  /\ scanCount = 1

(***************************************************************************)
(* The scores shown in the sidebar and the links they are shown with.      *)
(***************************************************************************)
\* C31: whenever the sidebar's api flag is true, the stored results are the
\* response to the scoring request for the stored links, in whichever order
\* the fetches of overlapping sendLinks messages complete.
C31_ScoresOfStoredLinks ==
  panel.api =>
    /\ panel.results >= 1
    /\ apiEndpoint(lis.links[panel.results]) = apiEndpoint(lis.links[panel.links])

=============================================================================
